---- MODULE Spec2Model ----
(***************************************************************************)
(* State-machine model of the FFmpeg RTMP bridge                           *)
(* (UnityProject/Plugins/Native/ffmpeg_rtmp_bridge.c).                     *)
(*                                                                         *)
(* g_rtmp is the static session struct.  Every public function is one      *)
(* action; the FFmpeg calls it makes are external collaborators whose      *)
(* results are chosen nondeterministically.  call records the public call   *)
(* that has just returned: its name, its arguments, its return code, the   *)
(* collaborator calls it made, in order, and the session it started from;  *)
(* it is cleared when the caller goes on (CallerResumes).                  *)
(*                                                                         *)
(* Spec is the program driven by a single caller.  SpecThreads is the      *)
(* program driven by several threads: mutex is who holds g_rtmp.mutex,     *)
(* thread is each thread's position in the function it is executing, and   *)
(* snapshot is the state and statistics as they were when the last public  *)
(* operation returned; every step is one lock operation or one stretch of  *)
(* code between two of them.  SpecThreadsFair is SpecThreads under fair     *)
(* scheduling.                                                             *)
(*                                                                         *)
(* Pointers are abstracted to NULL / LIVE / DANGLING.  start_time is       *)
(* written (lines 238, 472) but never read, and pts only flows into        *)
(* av_rescale_q; neither is part of the state.                             *)
(***************************************************************************)
EXTENDS Integers, Sequences, FiniteSets, TLC

VARIABLES g_rtmp, call, audio_init_ret, mutex, thread, snapshot

vars == <<g_rtmp, call, audio_init_ret, mutex, thread, snapshot>>

\* ---------------------------------------------------------------- bounds
MaxDim == 2
MaxDrain == 2
MaxFrames == 1
MaxDropped == 1
MaxBytes == 2
MaxFlush == 1

\* ------------------------------------------------- ffmpeg_rtmp_bridge.h
RTMP_SUCCESS == 0
RTMP_ERROR_INIT_FAILED == -1
RTMP_ERROR_CONNECT_FAILED == -2
RTMP_ERROR_ENCODE_FAILED == -3
RTMP_ERROR_SEND_FAILED == -4
RTMP_ERROR_NOT_CONNECTED == -5
RTMP_ERROR_INVALID_PARAMS == -6
RTMP_ERROR_ALLOC_FAILED == -7

RTMP_STATE_IDLE == 0
RTMP_STATE_INITIALIZED == 1
RTMP_STATE_CONNECTED == 2
RTMP_STATE_STREAMING == 3
RTMP_STATE_ERROR == -1

\* ------------------------------------------------------------- pointers
NULL == "NULL"
LIVE == "LIVE"
DANGLING == "DANGLING"

\* The flv muxer (line 185) does not set AVFMT_NOFILE: lines 209 and 679
\* always take the branch that opens / closes the transport.
AVFMT_NOFILE == FALSE

ConfigFields ==
    {"width", "height", "fps", "bitrate_kbps", "keyframe_interval",
     "audio_sample_rate", "audio_channels", "audio_bitrate_kbps"}

\* RTMPConfig of a zero-initialised g_rtmp
ZeroConfig == [f \in ConfigFields |-> 0]

\* g_rtmp = {0}.  pb stands for g_rtmp.format_ctx->pb, the transport handle.
ZeroSession ==
    [state |-> RTMP_STATE_IDLE,
     config |-> ZeroConfig,
     error_msg |-> "",
     format_ctx |-> NULL,
     video_codec_ctx |-> NULL,
     audio_codec_ctx |-> NULL,
     video_stream |-> NULL,
     audio_stream |-> NULL,
     sws_ctx |-> NULL,
     swr_ctx |-> NULL,
     video_frame |-> NULL,
     audio_frame |-> NULL,
     packet |-> NULL,
     pb |-> NULL,
     bytes_sent |-> 0,
     frames_sent |-> 0,
     dropped_frames |-> 0,
     mutex_initialized |-> 0]

\* --------------------------------------------- execution of one call
\* A call in progress is w = [g |-> session, log |-> collaborator calls made].
Begin(g) == [g |-> g, log |-> <<>>]

\* C passes arguments by value: Bind(x, F) is F applied to the value of x,
\* computed once.
Bind(x, F(_)) == CHOOSE r \in {F(v) : v \in {x}} : TRUE

\* One collaborator call: the function, its result, the packet size and the
\* stream the packet is tagged with (0 and "" where there is none).
Event(fn, res, size, stream) == [fn |-> fn, res |-> res, size |-> size, stream |-> stream]

Ev(w, fn, res) == [w EXCEPT !.log = Append(@, Event(fn, res, 0, ""))]

Ret(w, code) == [w |-> w, ret |-> code]

\* snprintf into g_rtmp.error_msg.  The text written is recorded in the call's
\* log; the slot itself is "" (empty) or "set" (holds the text of the last
\* SET_ERROR).
SET_ERROR(w, msg) == [Ev(w, "SET_ERROR", msg) EXCEPT !.g.error_msg = "set"]

OkFail(ok) == IF ok THEN "ok" ELSE "fail"

\* p = allocator(): the field takes the new pointer; a LIVE pointer that is
\* overwritten is lost without being freed.
Alloc(w, field, fn, ok) ==
    Bind(w, LAMBDA v :
        LET w1 == IF v.g[field] = LIVE THEN Ev(v, "leak", field) ELSE v
            w2 == Ev(w1, fn, OkFail(ok))
        IN [w2 EXCEPT !.g[field] = IF ok THEN LIVE ELSE NULL])

\* av_frame_free(&p), avcodec_free_context(&p), swr_free(&p), av_packet_free(&p):
\* release and set the pointer to NULL.
Free(w, field, fn) ==
    Bind(w, LAMBDA v :
        LET w1 == IF v.g[field] = DANGLING THEN Ev(v, "ub", field) ELSE v
        IN [Ev(w1, fn, field) EXCEPT !.g[field] = NULL])

\* A dereference of a pointer field; anything but a LIVE pointer is
\* undefined behaviour, recorded in the log.
Deref(w, field) ==
    Bind(w, LAMBDA v : IF v.g[field] = LIVE THEN v ELSE Ev(v, "ub", field))

\* avformat_free_context(g_rtmp.format_ctx); g_rtmp.format_ctx = NULL;
\* The streams belong to the context: pointers to them dangle afterwards.
\* A transport that is still open is lost.
FreeFormatCtx(w) ==
    Bind(w, LAMBDA v :
        LET w1 == IF v.g.pb = LIVE THEN Ev(v, "leak", "pb") ELSE v
            w2 == Ev(w1, "avformat_free_context", "format_ctx")
        IN [w2 EXCEPT !.g.format_ctx = NULL,
                      !.g.pb = NULL,
                      !.g.video_stream = IF @ = LIVE THEN DANGLING ELSE @,
                      !.g.audio_stream = IF @ = LIVE THEN DANGLING ELSE @])

\* ------------------------------------------------- init_video_encoder
VideoSteps ==
    {"avcodec_find_encoder", "avformat_new_stream", "avcodec_alloc_context3",
     "avcodec_open2", "avcodec_parameters_from_context", "av_frame_alloc",
     "av_frame_get_buffer", "sws_getContext"}

\* fail names the collaborator call that fails, "none" if all succeed.
init_video_encoder(w, fail) ==
    LET a1 == Ev(w, "avcodec_find_encoder", OkFail(fail # "avcodec_find_encoder"))
        a2 == Alloc(a1, "video_stream", "avformat_new_stream", fail # "avformat_new_stream")
        a3 == Alloc(a2, "video_codec_ctx", "avcodec_alloc_context3",
                    fail # "avcodec_alloc_context3")
        a4 == Ev(a3, "avcodec_open2", OkFail(fail # "avcodec_open2"))
        a5 == Ev(a4, "avcodec_parameters_from_context",
                 OkFail(fail # "avcodec_parameters_from_context"))
        a6 == Alloc(a5, "video_frame", "av_frame_alloc", fail # "av_frame_alloc")
        a7 == Ev(a6, "av_frame_get_buffer", OkFail(fail # "av_frame_get_buffer"))
        a8 == Alloc(a7, "sws_ctx", "sws_getContext", fail # "sws_getContext")
        FreeCodec(x) == Free(x, "video_codec_ctx", "avcodec_free_context")
        FreeFrame(x) == Free(x, "video_frame", "av_frame_free")
    IN
    IF fail = "avcodec_find_encoder" THEN
        Ret(SET_ERROR(a1, "H.264 encoder not found"), RTMP_ERROR_INIT_FAILED)
    ELSE IF fail = "avformat_new_stream" THEN
        Ret(SET_ERROR(a2, "Failed to create video stream"), RTMP_ERROR_INIT_FAILED)
    ELSE IF fail = "avcodec_alloc_context3" THEN
        Ret(SET_ERROR(a3, "Failed to allocate video codec context"), RTMP_ERROR_ALLOC_FAILED)
    ELSE IF fail = "avcodec_open2" THEN
        Ret(FreeCodec(SET_ERROR(a4, "Failed to open video encoder")), RTMP_ERROR_INIT_FAILED)
    ELSE IF fail = "avcodec_parameters_from_context" THEN
        Ret(FreeCodec(SET_ERROR(a5, "Failed to copy codec params")), RTMP_ERROR_INIT_FAILED)
    ELSE IF fail = "av_frame_alloc" THEN
        Ret(FreeCodec(SET_ERROR(a6, "Failed to allocate video frame")), RTMP_ERROR_ALLOC_FAILED)
    ELSE IF fail = "av_frame_get_buffer" THEN
        Ret(FreeCodec(FreeFrame(SET_ERROR(a7, "Failed to allocate video frame buffer"))),
            RTMP_ERROR_ALLOC_FAILED)
    ELSE IF fail = "sws_getContext" THEN
        Ret(FreeCodec(FreeFrame(SET_ERROR(a8, "Failed to create scaler context"))),
            RTMP_ERROR_INIT_FAILED)
    ELSE Ret(a8, RTMP_SUCCESS)

\* ------------------------------------------------- init_audio_encoder
AudioSteps ==
    {"avcodec_find_encoder", "avformat_new_stream", "avcodec_alloc_context3",
     "avcodec_open2", "avcodec_parameters_from_context", "av_frame_alloc",
     "av_frame_get_buffer", "swr_alloc", "swr_init"}

init_audio_encoder(w, fail) ==
    LET a1 == Ev(w, "avcodec_find_encoder", OkFail(fail # "avcodec_find_encoder"))
        a2 == Alloc(a1, "audio_stream", "avformat_new_stream", fail # "avformat_new_stream")
        a3 == Alloc(a2, "audio_codec_ctx", "avcodec_alloc_context3",
                    fail # "avcodec_alloc_context3")
        a4 == Ev(a3, "avcodec_open2", OkFail(fail # "avcodec_open2"))
        a5 == Ev(a4, "avcodec_parameters_from_context",
                 OkFail(fail # "avcodec_parameters_from_context"))
        a6 == Alloc(a5, "audio_frame", "av_frame_alloc", fail # "av_frame_alloc")
        a7 == Ev(a6, "av_frame_get_buffer", OkFail(fail # "av_frame_get_buffer"))
        a8 == Alloc(a7, "swr_ctx", "swr_alloc", fail # "swr_alloc")
        a9 == Ev(a8, "swr_init", OkFail(fail # "swr_init"))
        FreeCodec(x) == Free(x, "audio_codec_ctx", "avcodec_free_context")
        FreeFrame(x) == Free(x, "audio_frame", "av_frame_free")
        FreeSwr(x) == Free(x, "swr_ctx", "swr_free")
    IN
    IF fail = "avcodec_find_encoder" THEN
        Ret(SET_ERROR(a1, "AAC encoder not found"), RTMP_ERROR_INIT_FAILED)
    ELSE IF fail = "avformat_new_stream" THEN
        Ret(SET_ERROR(a2, "Failed to create audio stream"), RTMP_ERROR_INIT_FAILED)
    ELSE IF fail = "avcodec_alloc_context3" THEN
        Ret(SET_ERROR(a3, "Failed to allocate audio codec context"), RTMP_ERROR_ALLOC_FAILED)
    ELSE IF fail = "avcodec_open2" THEN
        Ret(FreeCodec(SET_ERROR(a4, "Failed to open audio encoder")), RTMP_ERROR_INIT_FAILED)
    ELSE IF fail = "avcodec_parameters_from_context" THEN
        Ret(FreeCodec(SET_ERROR(a5, "Failed to copy audio codec params")),
            RTMP_ERROR_INIT_FAILED)
    ELSE IF fail = "av_frame_alloc" THEN
        Ret(FreeCodec(SET_ERROR(a6, "Failed to allocate audio frame")), RTMP_ERROR_ALLOC_FAILED)
    ELSE IF fail = "av_frame_get_buffer" THEN
        Ret(FreeCodec(FreeFrame(SET_ERROR(a7, "Failed to allocate audio frame buffer"))),
            RTMP_ERROR_ALLOC_FAILED)
    ELSE IF fail = "swr_alloc" THEN
        Ret(FreeCodec(FreeFrame(SET_ERROR(a8, "Failed to allocate resampler"))),
            RTMP_ERROR_ALLOC_FAILED)
    ELSE IF fail = "swr_init" THEN
        Ret(FreeCodec(FreeFrame(FreeSwr(SET_ERROR(a9, "Failed to init resampler")))),
            RTMP_ERROR_INIT_FAILED)
    ELSE Ret(a9, RTMP_SUCCESS)

\* ------------------------------------------------------ rtmp_connect
Urls == {"NULL", "", "rtmp://host/stream"}

\* Outcomes of the collaborators of one rtmp_connect call.
\* A step that is not reached has no outcome: it is kept at its success value.
ConnectEnvs ==
    {e \in [fmt : BOOLEAN,
            vfail : VideoSteps \cup {"none"},
            afail : AudioSteps \cup {"none"},
            open : BOOLEAN,
            header : BOOLEAN] :
        /\ (~e.fmt \/ e.vfail # "none") => e.afail = "none" /\ e.open /\ e.header
        /\ ~e.fmt => e.vfail = "none"
        /\ ~e.open => e.header}

\* The result of rtmp_connect, with the return code of init_audio_encoder
\* (line 202) when the call got that far.
ConnectRet(w, code, audio) == [w |-> w, ret |-> code, audio |-> audio]

\* rtmp_connect with the return code of init_audio_encoder treated like that of
\* init_video_encoder (lines 195-199 repeated for the audio encoder).
rtmp_connect_audio_fatal(w, url, env) ==
    IF url = "NULL" \/ url = "" THEN
        ConnectRet(SET_ERROR(w, "URL is NULL or empty"), RTMP_ERROR_INVALID_PARAMS, "none")
    ELSE IF w.g.state # RTMP_STATE_INITIALIZED THEN
        ConnectRet(SET_ERROR(w, "Not initialized. Call rtmp_init first."),
                   RTMP_ERROR_NOT_CONNECTED, "none")
    ELSE
    LET c1 == Alloc(w, "format_ctx", "avformat_alloc_output_context2", env.fmt)
        FreeCodec(x) == Free(x, "video_codec_ctx", "avcodec_free_context")
    IN
    IF ~env.fmt THEN
        ConnectRet(SET_ERROR(c1, "Failed to create output context"),
                   RTMP_ERROR_INIT_FAILED, "none")
    ELSE
    Bind(init_video_encoder(c1, env.vfail), LAMBDA v :
    IF v.ret # RTMP_SUCCESS THEN
        ConnectRet(FreeFormatCtx(v.w), v.ret, "none")
    ELSE
    Bind(init_audio_encoder(v.w, env.afail), LAMBDA a :
    LET audio == OkFail(a.ret = RTMP_SUCCESS)
        c2 == IF AVFMT_NOFILE THEN a.w
              ELSE Alloc(a.w, "pb", "avio_open2", env.open)
        c3 == Ev(c2, "avformat_write_header", OkFail(env.header))
    IN
    IF a.ret # RTMP_SUCCESS THEN
        ConnectRet(FreeFormatCtx(a.w), a.ret, audio)
    ELSE IF ~AVFMT_NOFILE /\ ~env.open THEN
        ConnectRet(FreeFormatCtx(FreeCodec(SET_ERROR(c2, "Failed to open connection"))),
                   RTMP_ERROR_CONNECT_FAILED, audio)
    ELSE IF ~env.header THEN
        ConnectRet(FreeFormatCtx(FreeCodec(
                       Free(SET_ERROR(c3, "Failed to write header"), "pb", "avio_closep"))),
                   RTMP_ERROR_CONNECT_FAILED, audio)
    ELSE
        ConnectRet([c3 EXCEPT !.g.state = RTMP_STATE_CONNECTED], RTMP_SUCCESS, audio)))

rtmp_connect(w, url, env) ==
    IF url = "NULL" \/ url = "" THEN
        ConnectRet(SET_ERROR(w, "URL is NULL or empty"), RTMP_ERROR_INVALID_PARAMS, "none")
    ELSE IF w.g.state # RTMP_STATE_INITIALIZED THEN
        ConnectRet(SET_ERROR(w, "Not initialized. Call rtmp_init first."),
                   RTMP_ERROR_NOT_CONNECTED, "none")
    ELSE
    LET c1 == Alloc(w, "format_ctx", "avformat_alloc_output_context2", env.fmt)
        FreeCodec(x) == Free(x, "video_codec_ctx", "avcodec_free_context")
    IN
    IF ~env.fmt THEN
        ConnectRet(SET_ERROR(c1, "Failed to create output context"),
                   RTMP_ERROR_INIT_FAILED, "none")
    ELSE
    Bind(init_video_encoder(c1, env.vfail), LAMBDA v :
    IF v.ret # RTMP_SUCCESS THEN
        ConnectRet(FreeFormatCtx(v.w), v.ret, "none")
    ELSE
    \* a failure of init_audio_encoder is only logged (lines 202-206)
    Bind(init_audio_encoder(v.w, env.afail), LAMBDA a :
    LET audio == OkFail(a.ret = RTMP_SUCCESS)
        c2 == IF AVFMT_NOFILE THEN a.w
              ELSE Alloc(a.w, "pb", "avio_open2", env.open)
        c3 == Ev(c2, "avformat_write_header", OkFail(env.header))
    IN
    IF ~AVFMT_NOFILE /\ ~env.open THEN
        ConnectRet(FreeFormatCtx(FreeCodec(SET_ERROR(c2, "Failed to open connection"))),
                   RTMP_ERROR_CONNECT_FAILED, audio)
    ELSE IF ~env.header THEN
        ConnectRet(FreeFormatCtx(FreeCodec(
                       Free(SET_ERROR(c3, "Failed to write header"), "pb", "avio_closep"))),
                   RTMP_ERROR_CONNECT_FAILED, audio)
    ELSE
        ConnectRet([c3 EXCEPT !.g.state = RTMP_STATE_CONNECTED], RTMP_SUCCESS, audio)))

\* ---------------------------------------------- rtmp_start_streaming
\* rtmp_start_streaming without the state check of lines 465-469.
rtmp_start_streaming_unchecked(w) ==
    Ret([w EXCEPT !.g.state = RTMP_STATE_STREAMING], RTMP_SUCCESS)

rtmp_start_streaming(w) ==
    IF w.g.state # RTMP_STATE_CONNECTED THEN
        Ret(SET_ERROR(w, "Not connected. Call rtmp_connect first."),
            RTMP_ERROR_NOT_CONNECTED)
    ELSE Ret([w EXCEPT !.g.state = RTMP_STATE_STREAMING], RTMP_SUCCESS)

\* ----------------------------------------------- rtmp_stop_streaming
\* rtmp_stop_streaming with the statistics reset of lines 149-151 added to it.
rtmp_stop_streaming_resets_statistics(w) ==
    IF w.g.state = RTMP_STATE_STREAMING
    THEN Ret([w EXCEPT !.g.state = RTMP_STATE_CONNECTED,
                       !.g.bytes_sent = 0,
                       !.g.frames_sent = 0,
                       !.g.dropped_frames = 0],
             RTMP_SUCCESS)
    ELSE Ret(w, RTMP_SUCCESS)

rtmp_stop_streaming(w) ==
    IF w.g.state = RTMP_STATE_STREAMING
    THEN Ret([w EXCEPT !.g.state = RTMP_STATE_CONNECTED], RTMP_SUCCESS)
    ELSE Ret(w, RTMP_SUCCESS)

\* ------------------------------------------------- encoder outcomes
\* A packet the encoder hands out: its size, and whether the muxer write of
\* it succeeds.
Pkts == [size : {1, 2}, write : BOOLEAN]

RECURSIVE SeqsUpTo(_, _)
SeqsUpTo(S, n) ==
    IF n = 0 THEN {<<>>}
    ELSE LET shorter == SeqsUpTo(S, n - 1)
         IN shorter \cup {Append(q, x) : q \in {r \in shorter : Len(r) = n - 1}, x \in S}

Drains == SeqsUpTo(Pkts, MaxDrain)

\* Outcomes of the collaborators of one encode call: av_frame_make_writable,
\* the conversion, avcodec_send_frame, the packets avcodec_receive_packet
\* hands out, and how the drain ends (EAGAIN, or an encoder error).
\* A step that is not reached has no outcome: it is kept at its success value
\* (the drain stops at the first failed write).
WritesOkBeforeLast(drain) == \A i \in 1..(Len(drain) - 1) : drain[i].write

EncodeEnvs ==
    {e \in [writable : BOOLEAN, convert : BOOLEAN, send : BOOLEAN,
            drain : Drains, end : {"EAGAIN", "error"}] :
        /\ ~e.writable => e.convert /\ e.send
        /\ ~e.convert => e.send
        /\ (~e.writable \/ ~e.convert \/ ~e.send) => e.drain = <<>> /\ e.end = "EAGAIN"
        /\ WritesOkBeforeLast(e.drain)
        /\ (e.drain # <<>> /\ ~e.drain[Len(e.drain)].write) => e.end = "EAGAIN"}

\* ----------------------------------------------- encode_and_send_video
\* The receive loop of lines 539-563 and what follows it.
RECURSIVE video_drain(_, _, _)

\* The receive loop with frames_sent++ moved into the loop body (counted per
\* packet written, not per frame).
video_drain_counts_packets(w, drain, end) ==
    IF drain = <<>> THEN
        LET r == Ev(Deref(w, "packet"), "avcodec_receive_packet", end)
        IN IF end = "EAGAIN"
           THEN Ret(r, RTMP_SUCCESS)
           ELSE Ret(SET_ERROR(r, "Error receiving packet"), RTMP_ERROR_ENCODE_FAILED)
    ELSE
        LET pkt == Head(drain)
            r == [Deref(w, "packet") EXCEPT
                      !.log = Append(@, Event("avcodec_receive_packet", "ok", pkt.size, ""))]
            s == Deref(r, "video_stream")
            x == [s EXCEPT !.log = Append(@, Event("av_interleaved_write_frame",
                                                   OkFail(pkt.write), pkt.size, "video"))]
        IN IF ~pkt.write
           THEN Ret([SET_ERROR(x, "Failed to write video packet")
                        EXCEPT !.g.dropped_frames = @ + 1],
                    RTMP_ERROR_SEND_FAILED)
           ELSE video_drain([x EXCEPT !.g.bytes_sent = @ + pkt.size,
                                      !.g.frames_sent = @ + 1], Tail(drain), end)

\* The receive loop going on to the next packet after a failed muxer write
\* (lines 554-559 without the return).
video_drain_continues_after_failed_write(w, drain, end) ==
    IF drain = <<>> THEN
        LET r == Ev(Deref(w, "packet"), "avcodec_receive_packet", end)
        IN IF end = "EAGAIN"
           THEN Ret([r EXCEPT !.g.frames_sent = @ + 1], RTMP_SUCCESS)
           ELSE Ret(SET_ERROR(r, "Error receiving packet"), RTMP_ERROR_ENCODE_FAILED)
    ELSE
        LET pkt == Head(drain)
            r == [Deref(w, "packet") EXCEPT
                      !.log = Append(@, Event("avcodec_receive_packet", "ok", pkt.size, ""))]
            s == Deref(r, "video_stream")
            x == [s EXCEPT !.log = Append(@, Event("av_interleaved_write_frame",
                                                   OkFail(pkt.write), pkt.size, "video"))]
        IN IF ~pkt.write
           THEN video_drain([SET_ERROR(x, "Failed to write video packet")
                                EXCEPT !.g.dropped_frames = @ + 1], Tail(drain), end)
           ELSE video_drain([x EXCEPT !.g.bytes_sent = @ + pkt.size], Tail(drain), end)

video_drain(w, drain, end) ==
    IF drain = <<>> THEN
        LET r == Ev(Deref(w, "packet"), "avcodec_receive_packet", end)
        IN IF end = "EAGAIN"
           THEN Ret([r EXCEPT !.g.frames_sent = @ + 1], RTMP_SUCCESS)
           ELSE Ret(SET_ERROR(r, "Error receiving packet"), RTMP_ERROR_ENCODE_FAILED)
    ELSE
        LET pkt == Head(drain)
            r == [Deref(w, "packet") EXCEPT
                      !.log = Append(@, Event("avcodec_receive_packet", "ok", pkt.size, ""))]
            s == Deref(r, "video_stream")
            x == [s EXCEPT !.log = Append(@, Event("av_interleaved_write_frame",
                                                   OkFail(pkt.write), pkt.size, "video"))]
        IN IF ~pkt.write
           THEN Ret([SET_ERROR(x, "Failed to write video packet")
                        EXCEPT !.g.dropped_frames = @ + 1],
                    RTMP_ERROR_SEND_FAILED)
           ELSE video_drain([x EXCEPT !.g.bytes_sent = @ + pkt.size], Tail(drain), end)

encode_and_send_video(w, env) ==
    LET e1 == Ev(Deref(w, "video_frame"), "av_frame_make_writable", OkFail(env.writable))
        \* sws_scale reads config.width * 4 bytes of each of config.height rows
        e2 == [Deref(e1, "sws_ctx") EXCEPT
                  !.log = Append(@, Event("sws_scale", "ok",
                                          w.g.config.width * 4 * w.g.config.height, ""))]
        e3 == Ev(Deref(e2, "video_codec_ctx"), "avcodec_send_frame", OkFail(env.send))
    IN
    IF ~env.writable THEN
        Ret(SET_ERROR(e1, "Failed to make frame writable"), RTMP_ERROR_ENCODE_FAILED)
    ELSE IF ~env.send THEN
        Ret(SET_ERROR(e3, "Failed to send frame to encoder"), RTMP_ERROR_ENCODE_FAILED)
    ELSE video_drain(e3, env.drain, env.end)

\* ----------------------------------------------- rtmp_send_video_frame
\* int expected_size = g_rtmp.config.width * g_rtmp.config.height * 4;
expected_size(config) == config.width * config.height * 4

\* rtmp_send_video_frame without the state check of lines 492-496.
rtmp_send_video_frame_unchecked(w, rgba, data_size, env) ==
    IF rgba = "NULL" THEN
        Ret(SET_ERROR(w, "RGBA data is NULL"), RTMP_ERROR_INVALID_PARAMS)
    ELSE IF data_size # expected_size(w.g.config) THEN
        Ret(SET_ERROR(w, "Invalid data size"), RTMP_ERROR_INVALID_PARAMS)
    ELSE encode_and_send_video(w, env)

\* rtmp_send_video_frame with the state check moved before the parameter checks.
rtmp_send_video_frame_state_first(w, rgba, data_size, env) ==
    IF w.g.state # RTMP_STATE_STREAMING THEN
        Ret(SET_ERROR(w, "Not streaming"), RTMP_ERROR_NOT_CONNECTED)
    ELSE IF rgba = "NULL" THEN
        Ret(SET_ERROR(w, "RGBA data is NULL"), RTMP_ERROR_INVALID_PARAMS)
    ELSE IF data_size # expected_size(w.g.config) THEN
        Ret(SET_ERROR(w, "Invalid data size"), RTMP_ERROR_INVALID_PARAMS)
    ELSE encode_and_send_video(w, env)

\* rgba is "NULL" or "buf"; data_size is the length the caller states.
rtmp_send_video_frame(w, rgba, data_size, env) ==
    IF rgba = "NULL" THEN
        Ret(SET_ERROR(w, "RGBA data is NULL"), RTMP_ERROR_INVALID_PARAMS)
    ELSE IF data_size # expected_size(w.g.config) THEN
        Ret(SET_ERROR(w, "Invalid data size"), RTMP_ERROR_INVALID_PARAMS)
    ELSE IF w.g.state # RTMP_STATE_STREAMING THEN
        Ret(SET_ERROR(w, "Not streaming"), RTMP_ERROR_NOT_CONNECTED)
    ELSE encode_and_send_video(w, env)

\* ----------------------------------------------- encode_and_send_audio
RECURSIVE audio_drain(_, _, _)

\* The audio receive loop treating a failed muxer write as the video loop does
\* (dropped_frames++ as at line 557).
audio_drain_counts_dropped_frame(w, drain, end) ==
    IF drain = <<>> THEN
        LET r == Ev(Deref(w, "packet"), "avcodec_receive_packet", end)
        IN IF end = "EAGAIN"
           THEN Ret(r, RTMP_SUCCESS)
           ELSE Ret(r, RTMP_ERROR_ENCODE_FAILED)
    ELSE
        LET pkt == Head(drain)
            r == [Deref(w, "packet") EXCEPT
                      !.log = Append(@, Event("avcodec_receive_packet", "ok", pkt.size, ""))]
            s == Deref(r, "audio_stream")
            x == [s EXCEPT !.log = Append(@, Event("av_interleaved_write_frame",
                                                   OkFail(pkt.write), pkt.size, "audio"))]
        IN IF ~pkt.write
           THEN Ret([x EXCEPT !.g.dropped_frames = @ + 1], RTMP_ERROR_SEND_FAILED)
           ELSE audio_drain([x EXCEPT !.g.bytes_sent = @ + pkt.size], Tail(drain), end)

\* The receive loop of lines 625-644.
audio_drain(w, drain, end) ==
    IF drain = <<>> THEN
        LET r == Ev(Deref(w, "packet"), "avcodec_receive_packet", end)
        IN IF end = "EAGAIN"
           THEN Ret(r, RTMP_SUCCESS)
           ELSE Ret(r, RTMP_ERROR_ENCODE_FAILED)
    ELSE
        LET pkt == Head(drain)
            r == [Deref(w, "packet") EXCEPT
                      !.log = Append(@, Event("avcodec_receive_packet", "ok", pkt.size, ""))]
            s == Deref(r, "audio_stream")
            x == [s EXCEPT !.log = Append(@, Event("av_interleaved_write_frame",
                                                   OkFail(pkt.write), pkt.size, "audio"))]
        IN IF ~pkt.write
           THEN Ret(x, RTMP_ERROR_SEND_FAILED)
           ELSE audio_drain([x EXCEPT !.g.bytes_sent = @ + pkt.size], Tail(drain), end)

encode_and_send_audio(w, env) ==
    LET e1 == Ev(Deref(w, "audio_frame"), "av_frame_make_writable", OkFail(env.writable))
        e2 == Ev(Deref(e1, "swr_ctx"), "swr_convert", OkFail(env.convert))
        e3 == Ev(Deref(e2, "audio_codec_ctx"), "avcodec_send_frame", OkFail(env.send))
    IN
    IF ~env.writable THEN Ret(e1, RTMP_ERROR_ENCODE_FAILED)
    ELSE IF ~env.convert THEN Ret(e2, RTMP_ERROR_ENCODE_FAILED)
    ELSE IF ~env.send THEN Ret(e3, RTMP_ERROR_ENCODE_FAILED)
    ELSE audio_drain(e3, env.drain, env.end)

\* ----------------------------------------------------- rtmp_send_audio
rtmp_send_audio(w, pcm, num_samples, env) ==
    IF pcm = "NULL" \/ num_samples <= 0 THEN
        Ret(w, RTMP_ERROR_INVALID_PARAMS)
    ELSE IF w.g.state # RTMP_STATE_STREAMING \/ w.g.audio_codec_ctx = NULL THEN
        Ret(w, RTMP_SUCCESS)
    ELSE encode_and_send_audio(w, env)

\* ----------------------------------------------------- rtmp_disconnect
\* Outcomes of the collaborators of one rtmp_disconnect call: the end-of-stream
\* submit, the packets the flush hands out, how the flush ends (EOF, or an
\* encoder error) and the trailer write.  The results of the submit, of the
\* muxer writes and of the trailer write are ignored by the code.  An encoder
\* that refused the end-of-stream submit is not draining: it hands out nothing
\* and reports EAGAIN.
FlushPkts == [size : {1}, write : BOOLEAN]

FlushEnvs ==
    {e \in [eos : BOOLEAN, drain : SeqsUpTo(FlushPkts, MaxFlush),
            end : {"EOF", "EAGAIN", "error"}, trailer : BOOLEAN] :
        /\ e.eos => e.end # "EAGAIN"
        /\ ~e.eos => e.drain = <<>> /\ e.end = "EAGAIN"}

\* The flush loop of lines 667-672.
RECURSIVE flush_drain(_, _, _)

\* The flush loop receiving the encoder's last packets without handing them to
\* the muxer (lines 667-672 without line 670).
flush_drain_discards_packets(w, drain, end) ==
    IF drain = <<>> THEN Ev(Deref(w, "packet"), "avcodec_receive_packet", end)
    ELSE
        LET pkt == Head(drain)
            r == [Deref(w, "packet") EXCEPT
                      !.log = Append(@, Event("avcodec_receive_packet", "ok", pkt.size, ""))]
        IN flush_drain(Deref(r, "video_stream"), Tail(drain), end)

flush_drain(w, drain, end) ==
    IF drain = <<>> THEN Ev(Deref(w, "packet"), "avcodec_receive_packet", end)
    ELSE
        LET pkt == Head(drain)
            r == [Deref(w, "packet") EXCEPT
                      !.log = Append(@, Event("avcodec_receive_packet", "ok", pkt.size, ""))]
            s == Deref(r, "video_stream")
            x == [s EXCEPT !.log = Append(@, Event("av_interleaved_write_frame",
                                                   OkFail(pkt.write), pkt.size, "video"))]
        IN flush_drain(x, Tail(drain), end)

FreeIfSet(w, field, fn) ==
    Bind(w, LAMBDA v : IF v.g[field] # NULL THEN Free(v, field, fn) ELSE v)

\* rtmp_disconnect giving up after a failed av_write_trailer (line 676), before
\* the transport is closed and the resources are released.
rtmp_disconnect_stops_at_trailer(w, env) ==
    LET d1 == IF w.g.format_ctx # NULL /\ w.g.video_codec_ctx # NULL
              THEN flush_drain(Ev(w, "avcodec_send_frame", IF env.eos THEN "eos" ELSE "fail"),
                               env.drain, env.end)
              ELSE w
        t == Ev(d1, "av_write_trailer", OkFail(env.trailer))
        d2 == IF w.g.format_ctx # NULL
              THEN IF AVFMT_NOFILE THEN t ELSE Free(t, "pb", "avio_closep")
              ELSE d1
        d3 == FreeIfSet(d2, "sws_ctx", "sws_freeContext")
        d4 == FreeIfSet(d3, "swr_ctx", "swr_free")
        d5 == FreeIfSet(d4, "video_frame", "av_frame_free")
        d6 == FreeIfSet(d5, "audio_frame", "av_frame_free")
        d7 == FreeIfSet(d6, "video_codec_ctx", "avcodec_free_context")
        d8 == FreeIfSet(d7, "audio_codec_ctx", "avcodec_free_context")
        d9 == Bind(d8, LAMBDA v : IF v.g.format_ctx # NULL THEN FreeFormatCtx(v) ELSE v)
    IN IF w.g.format_ctx # NULL /\ ~env.trailer
       THEN Ret([t EXCEPT !.g.state = RTMP_STATE_INITIALIZED], RTMP_SUCCESS)
       ELSE Ret([d9 EXCEPT !.g.video_stream = NULL,
                           !.g.audio_stream = NULL,
                           !.g.state = RTMP_STATE_INITIALIZED],
                RTMP_SUCCESS)

\* rtmp_disconnect with the trailer written (line 676) before the encoder is
\* flushed (lines 665-673).
rtmp_disconnect_trailer_first(w, env) ==
    LET t == IF w.g.format_ctx # NULL
             THEN Ev(w, "av_write_trailer", OkFail(env.trailer))
             ELSE w
        d1 == IF w.g.format_ctx # NULL /\ w.g.video_codec_ctx # NULL
              THEN flush_drain(Ev(t, "avcodec_send_frame", IF env.eos THEN "eos" ELSE "fail"),
                               env.drain, env.end)
              ELSE t
        d2 == IF w.g.format_ctx # NULL
              THEN IF AVFMT_NOFILE THEN d1 ELSE Free(d1, "pb", "avio_closep")
              ELSE d1
        d3 == FreeIfSet(d2, "sws_ctx", "sws_freeContext")
        d4 == FreeIfSet(d3, "swr_ctx", "swr_free")
        d5 == FreeIfSet(d4, "video_frame", "av_frame_free")
        d6 == FreeIfSet(d5, "audio_frame", "av_frame_free")
        d7 == FreeIfSet(d6, "video_codec_ctx", "avcodec_free_context")
        d8 == FreeIfSet(d7, "audio_codec_ctx", "avcodec_free_context")
        d9 == Bind(d8, LAMBDA v : IF v.g.format_ctx # NULL THEN FreeFormatCtx(v) ELSE v)
    IN Ret([d9 EXCEPT !.g.video_stream = NULL,
                      !.g.audio_stream = NULL,
                      !.g.state = RTMP_STATE_INITIALIZED],
           RTMP_SUCCESS)

rtmp_disconnect(w, env) ==
    LET d1 == IF w.g.format_ctx # NULL /\ w.g.video_codec_ctx # NULL
              THEN flush_drain(Ev(w, "avcodec_send_frame", IF env.eos THEN "eos" ELSE "fail"),
                               env.drain, env.end)
              ELSE w
        d2 == IF w.g.format_ctx # NULL
              THEN LET t == Ev(d1, "av_write_trailer", OkFail(env.trailer))
                   IN IF AVFMT_NOFILE THEN t ELSE Free(t, "pb", "avio_closep")
              ELSE d1
        d3 == FreeIfSet(d2, "sws_ctx", "sws_freeContext")
        d4 == FreeIfSet(d3, "swr_ctx", "swr_free")
        d5 == FreeIfSet(d4, "video_frame", "av_frame_free")
        d6 == FreeIfSet(d5, "audio_frame", "av_frame_free")
        d7 == FreeIfSet(d6, "video_codec_ctx", "avcodec_free_context")
        d8 == FreeIfSet(d7, "audio_codec_ctx", "avcodec_free_context")
        d9 == Bind(d8, LAMBDA v : IF v.g.format_ctx # NULL THEN FreeFormatCtx(v) ELSE v)
    IN Ret([d9 EXCEPT !.g.video_stream = NULL,
                      !.g.audio_stream = NULL,
                      !.g.state = RTMP_STATE_INITIALIZED],
           RTMP_SUCCESS)

\* -------------------------------------------------------- rtmp_cleanup
\* void in the source; the call record carries RTMP_SUCCESS.
\* Lines 728-732.
cleanup_release(w) ==
    [FreeIfSet(w, "packet", "av_packet_free") EXCEPT !.g.state = RTMP_STATE_IDLE]

rtmp_cleanup(w, env) ==
    Ret(cleanup_release(rtmp_disconnect(w, env).w), RTMP_SUCCESS)

\* ---------------------------------------------------- rtmp_init_simple
\* The parameter check of line 118 without its fps term.
invalid_video_parameters_no_fps(cfg) ==
    cfg.width <= 0 \/ cfg.height <= 0 \/ cfg.bitrate_kbps <= 0

\* The parameter check of line 118.
invalid_video_parameters(cfg) ==
    cfg.width <= 0 \/ cfg.height <= 0 \/ cfg.fps <= 0 \/ cfg.bitrate_kbps <= 0

\* Lines 138-165: store the configuration, reset the statistics, allocate the
\* packet.
init_store(w, cfg, packet_ok) ==
    LET i3 == [w EXCEPT
                 !.g.config =
                     [width |-> cfg.width,
                      height |-> cfg.height,
                      fps |-> cfg.fps,
                      bitrate_kbps |-> cfg.bitrate_kbps,
                      keyframe_interval |->
                          IF cfg.keyframe_interval > 0 THEN cfg.keyframe_interval ELSE 2,
                      audio_sample_rate |->
                          IF cfg.audio_sample_rate > 0 THEN cfg.audio_sample_rate ELSE 44100,
                      audio_channels |->
                          IF cfg.audio_channels > 0 THEN cfg.audio_channels ELSE 2,
                      audio_bitrate_kbps |->
                          IF cfg.audio_bitrate_kbps > 0 THEN cfg.audio_bitrate_kbps ELSE 128],
                 !.g.bytes_sent = 0,
                 !.g.frames_sent = 0,
                 !.g.dropped_frames = 0]
        i4 == Alloc(i3, "packet", "av_packet_alloc", packet_ok)
    IN
    IF ~packet_ok THEN
        Ret(SET_ERROR(i4, "Failed to allocate packet"), RTMP_ERROR_ALLOC_FAILED)
    ELSE
        Ret([i4 EXCEPT !.g.state = RTMP_STATE_INITIALIZED, !.g.error_msg = ""],
            RTMP_SUCCESS)

rtmp_init_simple(w, cfg, packet_ok, env) ==
    IF invalid_video_parameters(cfg) THEN
        Ret(SET_ERROR(w, "Invalid video parameters"), RTMP_ERROR_INVALID_PARAMS)
    ELSE
    LET i1 == [w EXCEPT !.g.mutex_initialized = 1]
        i2 == IF i1.g.state # RTMP_STATE_IDLE THEN rtmp_cleanup(i1, env).w ELSE i1
    IN init_store(i2, cfg, packet_ok)

\* ----------------------------------------------------------- rtmp_init
\* config is "NULL" or "cfg"; cfg is what a non-NULL config points to.
rtmp_init(w, config, cfg, packet_ok, env) ==
    IF config = "NULL" THEN
        Ret(SET_ERROR(w, "Config is NULL"), RTMP_ERROR_INVALID_PARAMS)
    ELSE rtmp_init_simple(w, cfg, packet_ok, env)

\* ------------------------------------------------------------- inputs

\* A config with every field > 0 (the values of the spec's scenario, but for
\* the frame size).
GoodConfig(d) ==
    [width |-> d, height |-> 1, fps |-> 30, bitrate_kbps |-> 2000,
     keyframe_interval |-> 2, audio_sample_rate |-> 44100,
     audio_channels |-> 2, audio_bitrate_kbps |-> 128]

\* The optional fields left at 0 (or below): lines 143-146 replace them.
OptionalFields ==
    {"keyframe_interval", "audio_sample_rate", "audio_channels", "audio_bitrate_kbps"}

RequiredFields == ConfigFields \ OptionalFields

DefaultedConfig ==
    [f \in ConfigFields |->
        IF f \in RequiredFields THEN GoodConfig(MaxDim)[f]
        ELSE IF f = "audio_channels" THEN -1 ELSE 0]

Configs ==
    {GoodConfig(d) : d \in 1..MaxDim}
    \cup {[GoodConfig(MaxDim) EXCEPT ![f] = 0] : f \in RequiredFields}
    \cup {[GoodConfig(MaxDim) EXCEPT !.width = -1], DefaultedConfig}

\* What a caller passes to rtmp_init: NULL, or a pointer to one of these.
InitConfigs == {GoodConfig(MaxDim), [GoodConfig(MaxDim) EXCEPT !.fps = 0]}

DataSizes == {4 * d : d \in 1..MaxDim} \cup {4 * MaxDim + 1}

NumSamples == {0, 1}

ConnectOk == [fmt |-> TRUE, vfail |-> "none", afail |-> "none", open |-> TRUE, header |-> TRUE]

NoFlush == [eos |-> TRUE, drain |-> <<>>, end |-> "EOF", trailer |-> TRUE]

NoEncode ==
    [writable |-> TRUE, convert |-> TRUE, send |-> TRUE, drain |-> <<>>, end |-> "EAGAIN"]

\* ------------------------------------------------------------ actions
\* No call has returned that the caller has not yet taken note of.
NoCall ==
    [op |-> "none", arg |-> <<>>, env |-> <<>>, ret |-> RTMP_SUCCESS, log |-> <<>>,
     pre |-> ZeroSession]

\* The callers of SpecThreads.
Threads == {1, 2}

\* The value of mutex when no thread holds it.
NoThread == 0

\* A thread that is not inside any function of the bridge.
ThreadIdle ==
    [pc |-> "idle", op |-> "none", stack |-> <<>>, seen |-> 0, size |-> 0, left |-> 0,
     field |-> "", got |-> 0, cfg |-> ZeroConfig]

\* What rtmp_get_state, rtmp_get_bytes_sent, rtmp_get_frames_sent and
\* rtmp_get_dropped_frames return for the session g.
Snap(g) ==
    [state |-> g.state, bytes_sent |-> g.bytes_sent, frames_sent |-> g.frames_sent,
     dropped_frames |-> g.dropped_frames]

\* g_rtmp is zero-initialised static storage: the mutex is free, and nobody is
\* inside the bridge.
Init ==
    /\ g_rtmp = ZeroSession
    /\ call = NoCall
    /\ audio_init_ret = "none"
    /\ mutex = NoThread
    /\ thread = [t \in Threads |-> ThreadIdle]
    /\ snapshot = Snap(ZeroSession)

\* The single caller issues a call only after the previous one has returned.
CallerReady == call.op = "none"

\* The call returns: the session and the call record take the result (arg: the
\* arguments, env: the collaborators' outcomes).  The statistics counters are
\* capped by the model's bounds.
Return(op, arg, env, r) ==
    /\ r.w.g.bytes_sent <= MaxBytes
    /\ r.w.g.frames_sent <= MaxFrames
    /\ r.w.g.dropped_frames <= MaxDropped
    /\ g_rtmp' = r.w.g
    /\ call' = [op |-> op, arg |-> arg, env |-> env, ret |-> r.ret, log |-> r.w.log,
                pre |-> g_rtmp]
    /\ UNCHANGED <<mutex, thread, snapshot>>

\* The caller has the return code and goes on to its next call.
CallerResumes ==
    /\ ~CallerReady
    /\ call' = NoCall
    /\ UNCHANGED <<g_rtmp, audio_init_ret, mutex, thread, snapshot>>

\* Whether rtmp_disconnect, called now, reaches the flush and the trailer.
Flushes(g) == g.format_ctx # NULL

\* Whether rtmp_init_simple gets past its parameter check with cfg.
Validates(cfg) == \A f \in RequiredFields : cfg[f] > 0

CallInit ==
    /\ CallerReady
    /\ \E config \in {"NULL", "cfg"}, cfg \in InitConfigs, packet_ok \in BOOLEAN,
          env \in FlushEnvs :
          /\ config = "NULL" => cfg = GoodConfig(MaxDim)
          /\ (config = "NULL" \/ ~Validates(cfg)) => packet_ok /\ env = NoFlush
          /\ ~Flushes(g_rtmp) => env = NoFlush
          /\ \E r \in {rtmp_init(Begin(g_rtmp), config, cfg, packet_ok, env)} :
                /\ Return("rtmp_init", [config |-> config, cfg |-> cfg],
                          [packet_ok |-> packet_ok, flush |-> env], r)
                /\ audio_init_ret' =
                       IF r.ret = RTMP_ERROR_INVALID_PARAMS THEN audio_init_ret ELSE "none"

CallInitSimple ==
    /\ CallerReady
    /\ \E cfg \in Configs, packet_ok \in BOOLEAN, env \in FlushEnvs :
          /\ ~Validates(cfg) => packet_ok /\ env = NoFlush
          /\ ~Flushes(g_rtmp) => env = NoFlush
          /\ \E r \in {rtmp_init_simple(Begin(g_rtmp), cfg, packet_ok, env)} :
                /\ Return("rtmp_init_simple", [config |-> "cfg", cfg |-> cfg],
                          [packet_ok |-> packet_ok, flush |-> env], r)
                /\ audio_init_ret' =
                       IF r.ret = RTMP_ERROR_INVALID_PARAMS THEN audio_init_ret ELSE "none"

CallConnect ==
    /\ CallerReady
    /\ \E url \in Urls, env \in ConnectEnvs :
          /\ (url \in {"NULL", ""} \/ g_rtmp.state # RTMP_STATE_INITIALIZED) => env = ConnectOk
          /\ \E r \in {rtmp_connect(Begin(g_rtmp), url, env)} :
                /\ Return("rtmp_connect", [url |-> url], env, r)
                /\ audio_init_ret' =
                       IF r.ret = RTMP_SUCCESS THEN r.audio ELSE audio_init_ret

CallStartStreaming ==
    /\ CallerReady
    /\ \E r \in {rtmp_start_streaming(Begin(g_rtmp))} :
          Return("rtmp_start_streaming", <<>>, <<>>, r)
    /\ UNCHANGED audio_init_ret

CallStopStreaming ==
    /\ CallerReady
    /\ \E r \in {rtmp_stop_streaming(Begin(g_rtmp))} :
          Return("rtmp_stop_streaming", <<>>, <<>>, r)
    /\ UNCHANGED audio_init_ret

CallSendVideoFrame ==
    /\ CallerReady
    /\ \E rgba \in {"NULL", "buf"}, data_size \in DataSizes, env \in EncodeEnvs :
          /\ env.convert
          /\ rgba = "NULL" => data_size = 4 * MaxDim
          /\ (g_rtmp.state # RTMP_STATE_STREAMING \/ rgba = "NULL"
                 \/ data_size # expected_size(g_rtmp.config))
                => env = NoEncode
          /\ \E r \in {rtmp_send_video_frame(Begin(g_rtmp), rgba, data_size, env)} :
                Return("rtmp_send_video_frame", [rgba |-> rgba, data_size |-> data_size],
                       env, r)
    /\ UNCHANGED audio_init_ret

CallSendAudio ==
    /\ CallerReady
    /\ \E pcm \in {"NULL", "buf"}, num_samples \in NumSamples, env \in EncodeEnvs :
          /\ pcm = "NULL" => num_samples = 1
          /\ (g_rtmp.state # RTMP_STATE_STREAMING \/ g_rtmp.audio_codec_ctx = NULL
                 \/ pcm = "NULL" \/ num_samples <= 0)
                => env = NoEncode
          /\ \E r \in {rtmp_send_audio(Begin(g_rtmp), pcm, num_samples, env)} :
                Return("rtmp_send_audio", [pcm |-> pcm, num_samples |-> num_samples],
                       env, r)
    /\ UNCHANGED audio_init_ret

CallDisconnect ==
    /\ CallerReady
    /\ \E env \in FlushEnvs :
          /\ ~Flushes(g_rtmp) => env = NoFlush
          /\ \E r \in {rtmp_disconnect(Begin(g_rtmp), env)} :
                Return("rtmp_disconnect", <<>>, env, r)
    /\ audio_init_ret' = "none"

CallCleanup ==
    /\ CallerReady
    /\ \E env \in FlushEnvs :
          /\ ~Flushes(g_rtmp) => env = NoFlush
          /\ \E r \in {rtmp_cleanup(Begin(g_rtmp), env)} :
                Return("rtmp_cleanup", <<>>, env, r)
    /\ audio_init_ret' = "none"

Next ==
    \/ CallInit
    \/ CallInitSimple
    \/ CallConnect
    \/ CallStartStreaming
    \/ CallStopStreaming
    \/ CallSendVideoFrame
    \/ CallSendAudio
    \/ CallDisconnect
    \/ CallCleanup
    \/ CallerResumes

Spec == Init /\ [][Next]_vars

\* ============================================================ threads
\* The program driven by the threads of Threads.  A thread executes one public
\* function at a time; pc is the source line it is about to execute ("idle"
\* outside the bridge), stack the lines its nested calls return to.  Between
\* MUTEX_LOCK and MUTEX_UNLOCK a function runs in stretches; the stretches that
\* convert, encode or write to the muxer are steps of their own.  Every
\* collaborator call succeeds.

\* The configs the threads pass to rtmp_init_simple: valid, of different widths.
ThreadConfigs == {GoodConfig(d) : d \in 1..MaxDim}

\* The frame lengths the threads pass to rtmp_send_video_frame.
ThreadSizes == {0} \cup {expected_size(cfg) : cfg \in ThreadConfigs}

\* The lines that are a MUTEX_LOCK, and the line that follows each.
LockPcs ==
    {"init_129", "init_135", "connect_174", "start_463", "video_490", "audio_574",
     "stop_650", "disconnect_661", "cleanup_726"}

AfterLock(pc) ==
    CASE pc = "init_129" -> "init_132"
      [] pc = "init_135" -> "init_139"
      [] pc = "connect_174" -> "connect_176"
      [] pc = "start_463" -> "start_465"
      [] pc = "video_490" -> "video_492"
      [] pc = "audio_574" -> "audio_576"
      [] pc = "stop_650" -> "stop_652"
      [] pc = "disconnect_661" -> "disconnect_663"
      [] pc = "cleanup_726" -> "cleanup_728"

\* The lines at which a thread is converting, encoding, flushing or writing to
\* the muxer.
WorkPcs == {"video_498", "video_540", "audio_581", "disconnect_666"}

\* The public functions whose first access to the session is their MUTEX_LOCK.
\* rtmp_cleanup starts with its call of rtmp_disconnect (line 724).
FirstPc(op) ==
    CASE op = "rtmp_connect" -> "connect_174"
      [] op = "rtmp_start_streaming" -> "start_463"
      [] op = "rtmp_stop_streaming" -> "stop_650"
      [] op = "rtmp_send_audio" -> "audio_574"
      [] op = "rtmp_disconnect" -> "disconnect_661"
      [] op = "rtmp_cleanup" -> "disconnect_661"

\* MUTEX_UNLOCK: the mutex is free afterwards, whoever held it.
Unlock == mutex' = NoThread

\* The function t is in returns: to the line its caller goes on at, or out of
\* the bridge, which completes the public operation.
Finish(t) ==
    IF thread[t].stack = <<>>
    THEN /\ thread' = [thread EXCEPT ![t] = ThreadIdle]
         /\ snapshot' = Snap(g_rtmp')
    ELSE /\ thread' = [thread EXCEPT ![t].pc = Head(thread[t].stack),
                                     ![t].stack = Tail(thread[t].stack)]
         /\ UNCHANGED snapshot

At(t, pc) == thread[t].pc = pc

Goto(t, pc) == thread' = [thread EXCEPT ![t].pc = pc]

\* A thread calls one of the functions that start with MUTEX_LOCK (for
\* rtmp_connect and rtmp_send_audio: with arguments that pass the checks made
\* before it).
Enter(t) ==
    /\ At(t, "idle")
    /\ \E op \in {"rtmp_connect", "rtmp_start_streaming", "rtmp_stop_streaming",
                  "rtmp_send_audio", "rtmp_disconnect", "rtmp_cleanup"} :
          thread' = [thread EXCEPT ![t].op = op,
                                   ![t].pc = FirstPc(op),
                                   ![t].stack = IF op = "rtmp_cleanup"
                                                THEN <<"cleanup_726">> ELSE <<>>]
    /\ UNCHANGED <<g_rtmp, mutex, snapshot, call, audio_init_ret>>

\* MUTEX_LOCK: blocks while the mutex is held.
Lock(t) ==
    /\ thread[t].pc \in LockPcs
    /\ mutex = NoThread
    /\ mutex' = t
    /\ Goto(t, AfterLock(thread[t].pc))
    /\ UNCHANGED <<g_rtmp, snapshot, call, audio_init_ret>>

\* MUTEX_LOCK on a mutex that no MUTEX_INIT has initialised (every function
\* but rtmp_init_simple called before the first initialize).  Undefined: the
\* zeroed storage may act as a free mutex (Lock), or the call never returns
\* (EnterCriticalSection on a zeroed CRITICAL_SECTION finds it owned and waits).
LockNeverInitialised(t) ==
    /\ thread[t].pc \in LockPcs
    /\ g_rtmp.mutex_initialized = 0
    /\ Goto(t, "hung")
    /\ UNCHANGED <<g_rtmp, mutex, snapshot, call, audio_init_ret>>

\* rtmp_init_simple, line 124: a thread calls it with a valid config and reads
\* g_rtmp.mutex_initialized.
InitReadFlag(t) ==
    /\ At(t, "idle")
    /\ \E cfg \in ThreadConfigs :
          thread' = [thread EXCEPT ![t].op = "rtmp_init_simple",
                                   ![t].cfg = cfg,
                                   ![t].seen = g_rtmp.mutex_initialized,
                                   ![t].pc = IF g_rtmp.mutex_initialized = 0
                                             THEN "init_125" ELSE "init_129"]
    /\ UNCHANGED <<g_rtmp, mutex, snapshot, call, audio_init_ret>>

\* Lines 125-126.  Initialising a mutex that is locked is undefined: it stays
\* as it is, or it is reset to free.
InitMutex(t) ==
    /\ At(t, "init_125")
    /\ mutex' \in {mutex, NoThread}
    /\ g_rtmp' = [g_rtmp EXCEPT !.mutex_initialized = 1]
    /\ Goto(t, "init_129")
    /\ UNCHANGED <<snapshot, call, audio_init_ret>>

\* Lines 132-136: a session past Idle is cleaned up with the mutex released.
InitCheckState(t) ==
    /\ At(t, "init_132")
    /\ IF g_rtmp.state # RTMP_STATE_IDLE
       THEN /\ Unlock
            /\ thread' = [thread EXCEPT ![t].pc = "disconnect_661",
                                        ![t].stack = <<"cleanup_726", "init_135">>]
       ELSE /\ Goto(t, "init_139")
            /\ UNCHANGED mutex
    /\ UNCHANGED <<g_rtmp, snapshot, call, audio_init_ret>>

\* Lines 138-165.
InitStore(t) ==
    /\ At(t, "init_139")
    /\ g_rtmp' = init_store(Begin(g_rtmp), thread[t].cfg, TRUE).w.g
    /\ Unlock
    /\ Finish(t)
    /\ UNCHANGED <<call, audio_init_ret>>

\* Lines 176-242.
ConnectBody(t) ==
    /\ At(t, "connect_176")
    /\ g_rtmp' = rtmp_connect(Begin(g_rtmp), "rtmp://host/stream", ConnectOk).w.g
    /\ Unlock
    /\ Finish(t)
    /\ UNCHANGED <<call, audio_init_ret>>

\* Lines 465-475.
StartBody(t) ==
    /\ At(t, "start_465")
    /\ g_rtmp' = rtmp_start_streaming(Begin(g_rtmp)).w.g
    /\ Unlock
    /\ Finish(t)
    /\ UNCHANGED <<call, audio_init_ret>>

\* Lines 652-657.
StopBody(t) ==
    /\ At(t, "stop_652")
    /\ g_rtmp' = rtmp_stop_streaming(Begin(g_rtmp)).w.g
    /\ Unlock
    /\ Finish(t)
    /\ UNCHANGED <<call, audio_init_ret>>

\* rtmp_send_video_frame, lines 479-488: a thread calls it with a buffer and a
\* length, and the length is compared with the stored config, before the lock.
VideoCheckSize(t) ==
    /\ At(t, "idle")
    /\ g_rtmp.frames_sent < MaxFrames
    /\ \E size \in ThreadSizes :
          IF size # expected_size(g_rtmp.config)
          THEN /\ g_rtmp' = SET_ERROR(Begin(g_rtmp), "Invalid data size").g
               /\ snapshot' = Snap(g_rtmp')
               /\ UNCHANGED thread
          ELSE /\ thread' = [thread EXCEPT ![t].op = "rtmp_send_video_frame",
                                           ![t].size = size,
                                           ![t].pc = "video_490"]
               /\ UNCHANGED <<g_rtmp, snapshot>>
    /\ UNCHANGED <<mutex, call, audio_init_ret>>

\* Lines 492-496.
VideoCheckState(t) ==
    /\ At(t, "video_492")
    /\ IF g_rtmp.state # RTMP_STATE_STREAMING
       THEN /\ g_rtmp' = SET_ERROR(Begin(g_rtmp), "Not streaming").g
            /\ Unlock
            /\ Finish(t)
       ELSE /\ Goto(t, "video_498")
            /\ UNCHANGED <<g_rtmp, mutex, snapshot>>
    /\ UNCHANGED <<call, audio_init_ret>>

\* encode_and_send_video, lines 504-536: the frame is converted and submitted;
\* the encoder holds some number of packets for it.
VideoEncode(t) ==
    /\ At(t, "video_498")
    /\ \E n \in 0..MaxDrain :
          /\ g_rtmp.bytes_sent + n <= MaxBytes
          /\ thread' = [thread EXCEPT ![t].left = n, ![t].pc = "video_540"]
    /\ UNCHANGED <<g_rtmp, mutex, snapshot, call, audio_init_ret>>

\* Lines 540-562: one packet is received and written.
VideoWritePacket(t) ==
    /\ At(t, "video_540")
    /\ thread[t].left > 0
    /\ g_rtmp' = [g_rtmp EXCEPT !.bytes_sent = @ + 1]
    /\ thread' = [thread EXCEPT ![t].left = @ - 1]
    /\ UNCHANGED <<mutex, snapshot, call, audio_init_ret>>

\* Lines 540-542, 565-566 and 500-501: no packet is left.
VideoDone(t) ==
    /\ At(t, "video_540")
    /\ thread[t].left = 0
    /\ g_rtmp' = [g_rtmp EXCEPT !.frames_sent = @ + 1]
    /\ Unlock
    /\ Finish(t)
    /\ UNCHANGED <<call, audio_init_ret>>

\* rtmp_send_audio, lines 576-579.
AudioCheckState(t) ==
    /\ At(t, "audio_576")
    /\ IF g_rtmp.state # RTMP_STATE_STREAMING \/ g_rtmp.audio_codec_ctx = NULL
       THEN /\ g_rtmp' = g_rtmp
            /\ Unlock
            /\ Finish(t)
       ELSE /\ Goto(t, "audio_581")
            /\ UNCHANGED <<g_rtmp, mutex, snapshot>>
    /\ UNCHANGED <<call, audio_init_ret>>

\* encode_and_send_audio and lines 583-584; the encoder hands out no packet.
AudioEncode(t) ==
    /\ At(t, "audio_581")
    /\ g_rtmp' = g_rtmp
    /\ Unlock
    /\ Finish(t)
    /\ UNCHANGED <<call, audio_init_ret>>

\* rtmp_disconnect, line 663.
DisconnectEnter(t) ==
    /\ At(t, "disconnect_663")
    /\ Goto(t, IF g_rtmp.format_ctx # NULL THEN "disconnect_666" ELSE "disconnect_685")
    /\ UNCHANGED <<g_rtmp, mutex, snapshot, call, audio_init_ret>>

\* Lines 665-681: the flush, the trailer and the close of the transport.
DisconnectFlush(t) ==
    /\ At(t, "disconnect_666")
    /\ Goto(t, "disconnect_685")
    /\ UNCHANGED <<g_rtmp, mutex, snapshot, call, audio_init_ret>>

\* Lines 685-720.
DisconnectRelease(t) ==
    /\ At(t, "disconnect_685")
    /\ g_rtmp' = rtmp_disconnect(Begin([g_rtmp EXCEPT !.pb = NULL]), NoFlush).w.g
    /\ Unlock
    /\ Finish(t)
    /\ UNCHANGED <<call, audio_init_ret>>

\* rtmp_cleanup, lines 728-734.
CleanupRelease(t) ==
    /\ At(t, "cleanup_728")
    /\ g_rtmp' = cleanup_release(Begin(g_rtmp)).g
    /\ Unlock
    /\ Finish(t)
    /\ UNCHANGED <<call, audio_init_ret>>

\* rtmp_get_state, rtmp_get_bytes_sent, rtmp_get_frames_sent,
\* rtmp_get_dropped_frames (lines 737-755): the field is read without the lock.
Get(t) ==
    /\ At(t, "idle")
    /\ \E field \in DOMAIN snapshot :
          thread' = [thread EXCEPT ![t].op = "rtmp_get",
                                   ![t].field = field,
                                   ![t].got = g_rtmp[field],
                                   ![t].pc = "got"]
    /\ UNCHANGED <<g_rtmp, mutex, snapshot, call, audio_init_ret>>

\* The getter returns the value to its caller.
GetReturn(t) ==
    /\ At(t, "got")
    /\ thread' = [thread EXCEPT ![t] = ThreadIdle]
    /\ UNCHANGED <<g_rtmp, mutex, snapshot, call, audio_init_ret>>

ThreadNext ==
    \E t \in Threads :
        \/ Enter(t)
        \/ Lock(t)
        \/ LockNeverInitialised(t)
        \/ InitReadFlag(t)
        \/ InitMutex(t)
        \/ InitCheckState(t)
        \/ InitStore(t)
        \/ ConnectBody(t)
        \/ StartBody(t)
        \/ StopBody(t)
        \/ VideoCheckSize(t)
        \/ VideoCheckState(t)
        \/ VideoEncode(t)
        \/ VideoWritePacket(t)
        \/ VideoDone(t)
        \/ AudioCheckState(t)
        \/ AudioEncode(t)
        \/ DisconnectEnter(t)
        \/ DisconnectFlush(t)
        \/ DisconnectRelease(t)
        \/ CleanupRelease(t)
        \/ Get(t)
        \/ GetReturn(t)

SpecThreads == Init /\ [][ThreadNext]_vars

\* The steps of a thread that is inside the bridge and able to go on.  Calling
\* into the bridge is up to the caller, and a lock that never returns is not a
\* step the scheduler owes anybody.
ThreadStep(t) ==
    \/ Lock(t)
    \/ InitMutex(t)
    \/ InitCheckState(t)
    \/ InitStore(t)
    \/ ConnectBody(t)
    \/ StartBody(t)
    \/ StopBody(t)
    \/ VideoCheckState(t)
    \/ VideoEncode(t)
    \/ VideoWritePacket(t)
    \/ VideoDone(t)
    \/ AudioCheckState(t)
    \/ AudioEncode(t)
    \/ DisconnectEnter(t)
    \/ DisconnectFlush(t)
    \/ DisconnectRelease(t)
    \/ CleanupRelease(t)
    \/ GetReturn(t)

\* Fair scheduling: a thread that can take a step is scheduled in the end, and
\* a thread waiting in MUTEX_LOCK gets the mutex in the end if it is free again
\* and again.
SpecThreadsFair ==
    /\ SpecThreads
    /\ \A t \in Threads : WF_vars(ThreadStep(t)) /\ SF_vars(Lock(t))

\* ========================================================== properties
\* Vocabulary: what the call that has just returned did.

Initialize == call.op \in {"rtmp_init", "rtmp_init_simple"}

Stats(g) == <<g.bytes_sent, g.frames_sent, g.dropped_frames>>

\* Every pointer field of the session.
Resources ==
    {"format_ctx", "pb", "video_codec_ctx", "audio_codec_ctx", "video_stream",
     "audio_stream", "sws_ctx", "swr_ctx", "video_frame", "audio_frame", "packet"}

\* The pointer fields rtmp_connect and its helpers assign.
ConnectResources == Resources \ {"packet"}

\* The session but for the text in the last-error slot.
Session(g) == [g EXCEPT !.error_msg = ""]

\* The collaborator calls of the call, SET_ERROR left out.
Work == SelectSeq(call.log, LAMBDA e : e.fn # "SET_ERROR")

\* The number of failed muxer writes of packets of the given stream.
WriteFailures(stream) ==
    Cardinality({i \in DOMAIN call.log :
                    /\ call.log[i].fn = "av_interleaved_write_frame"
                    /\ call.log[i].res = "fail"
                    /\ call.log[i].stream = stream})

ValidUrl == call.arg.url \notin {"NULL", ""}

\* ------------------------------------------------------------------ C1
\* C1: in every step, the state becomes Streaming only by rtmp_start_streaming
\* called while Connected, becomes Connected only by a successful rtmp_connect
\* called while Initialized or by rtmp_stop_streaming called while Streaming,
\* and never takes the value RTMP_STATE_ERROR.
C1_StateOrder ==
    [][/\ (g_rtmp'.state = RTMP_STATE_STREAMING /\ g_rtmp.state # RTMP_STATE_STREAMING)
            => call'.op = "rtmp_start_streaming" /\ g_rtmp.state = RTMP_STATE_CONNECTED
       /\ (g_rtmp'.state = RTMP_STATE_CONNECTED /\ g_rtmp.state # RTMP_STATE_CONNECTED)
            => \/ /\ call'.op = "rtmp_connect"
                  /\ call'.ret = RTMP_SUCCESS
                  /\ g_rtmp.state = RTMP_STATE_INITIALIZED
               \/ /\ call'.op = "rtmp_stop_streaming"
                  /\ g_rtmp.state = RTMP_STATE_STREAMING
       /\ g_rtmp'.state # RTMP_STATE_ERROR]_vars

\* A session that went Initialized -> Connected -> Streaming -> Connected.
C1_Witness ==
    /\ call.op = "rtmp_stop_streaming"
    /\ call.pre.state = RTMP_STATE_STREAMING
    /\ g_rtmp.state = RTMP_STATE_CONNECTED

\* ------------------------------------------------------------------ C2
\* C2 as stated: initialize succeeds and yields Initialized if all eight config
\* fields are > 0, and returns InvalidParams with the state unchanged if any
\* one of the eight is <= 0.
C2_AllEightFields ==
    (Initialize /\ call.arg.config = "cfg") =>
        LET cfg == call.arg.cfg IN
        /\ (\A f \in ConfigFields : cfg[f] > 0)
              => call.ret = RTMP_SUCCESS /\ g_rtmp.state = RTMP_STATE_INITIALIZED
        /\ (\E f \in ConfigFields : cfg[f] <= 0)
              => call.ret = RTMP_ERROR_INVALID_PARAMS /\ g_rtmp.state = call.pre.state

\* The value lines 143-146 store for an optional field that is <= 0.
C2_Default(f) ==
    CASE f = "keyframe_interval" -> 2
      [] f = "audio_sample_rate" -> 44100
      [] f = "audio_channels" -> 2
      [] f = "audio_bitrate_kbps" -> 128

\* C2, amended: initialize checks width, height, fps and bitrate_kbps only.  If
\* one of these four is <= 0 the call returns InvalidParams and the session is
\* as before (but for the error text).  If all four are > 0 the call succeeds
\* with state Initialized, provided the packet buffer can be allocated, and
\* stores each of the other four fields as given if > 0 and as its default
\* (2, 44100, 2, 128) otherwise; if the packet buffer cannot be allocated it
\* returns AllocFailed with state Idle.
C2_RequiredFieldsOnly ==
    (Initialize /\ call.arg.config = "cfg") =>
        LET cfg == call.arg.cfg IN
        /\ (\E f \in RequiredFields : cfg[f] <= 0)
              => /\ call.ret = RTMP_ERROR_INVALID_PARAMS
                 /\ Session(g_rtmp) = Session(call.pre)
        /\ ((\A f \in RequiredFields : cfg[f] > 0) /\ call.env.packet_ok)
              => /\ call.ret = RTMP_SUCCESS
                 /\ g_rtmp.state = RTMP_STATE_INITIALIZED
                 /\ \A f \in RequiredFields : g_rtmp.config[f] = cfg[f]
                 /\ \A f \in OptionalFields :
                       g_rtmp.config[f] = IF cfg[f] > 0 THEN cfg[f] ELSE C2_Default(f)
        /\ ((\A f \in RequiredFields : cfg[f] > 0) /\ ~call.env.packet_ok)
              => /\ call.ret = RTMP_ERROR_ALLOC_FAILED
                 /\ g_rtmp.state = RTMP_STATE_IDLE

\* initialize has succeeded on a config whose four optional fields are <= 0.
C2_Witness ==
    /\ Initialize
    /\ call.arg.config = "cfg"
    /\ \A f \in OptionalFields : call.arg.cfg[f] <= 0
    /\ call.ret = RTMP_SUCCESS
    /\ g_rtmp.state = RTMP_STATE_INITIALIZED

\* ------------------------------------------------------------------ C3
\* C3 as stated: connect outside Initialized, startStreaming outside Connected,
\* stopStreaming outside Streaming and disconnect outside Connected/Streaming
\* return NotConnected and leave state, resources and statistics as they were.
C3_MismatchIsNotConnected ==
    LET pre == call.pre.state IN
    (\/ call.op = "rtmp_connect" /\ pre # RTMP_STATE_INITIALIZED
     \/ call.op = "rtmp_start_streaming" /\ pre # RTMP_STATE_CONNECTED
     \/ call.op = "rtmp_stop_streaming" /\ pre # RTMP_STATE_STREAMING
     \/ call.op = "rtmp_disconnect"
           /\ pre \notin {RTMP_STATE_CONNECTED, RTMP_STATE_STREAMING})
    => /\ call.ret = RTMP_ERROR_NOT_CONNECTED
       /\ g_rtmp.state = pre
       /\ \A f \in Resources : g_rtmp[f] = call.pre[f]
       /\ Stats(g_rtmp) = Stats(call.pre)

\* ------------------------------------------------------------------ C4
\* C4 as stated: rtmp_send_video_frame outside Streaming returns NotConnected
\* for any buffer and any length, framesSent and bytesSent unchanged.
C4_AlwaysNotConnected ==
    (call.op = "rtmp_send_video_frame" /\ call.pre.state # RTMP_STATE_STREAMING)
    => /\ call.ret = RTMP_ERROR_NOT_CONNECTED
       /\ g_rtmp.frames_sent = call.pre.frames_sent
       /\ g_rtmp.bytes_sent = call.pre.bytes_sent

\* C4, amended: rtmp_send_video_frame outside Streaming returns NotConnected if
\* the buffer is not NULL and its length is width*height*4 of the stored
\* config, and InvalidParams otherwise (the buffer and the length are checked
\* first); in both cases it makes no collaborator call and leaves the session
\* as it was (but for the error text).
C4_NotStreamingFails ==
    (call.op = "rtmp_send_video_frame" /\ call.pre.state # RTMP_STATE_STREAMING)
    => LET good == /\ call.arg.rgba # "NULL"
                   /\ call.arg.data_size
                        = call.pre.config.width * call.pre.config.height * 4
       IN /\ good => call.ret = RTMP_ERROR_NOT_CONNECTED
          /\ ~good => call.ret = RTMP_ERROR_INVALID_PARAMS
          /\ Work = <<>>
          /\ Session(g_rtmp) = Session(call.pre)

\* A frame of the right length was sent to a Connected session and refused.
C4_Witness ==
    /\ call.op = "rtmp_send_video_frame"
    /\ call.pre.state = RTMP_STATE_CONNECTED
    /\ call.arg.rgba = "buf"
    /\ call.arg.data_size = call.pre.config.width * call.pre.config.height * 4
    /\ call.ret = RTMP_ERROR_NOT_CONNECTED

\* ------------------------------------------------------------------ C5
\* C5: rtmp_send_video_frame with a length other than width*height*4 of the
\* stored config returns InvalidParams in every state, makes no collaborator
\* call (no conversion, encoder submit or muxer write) and leaves framesSent,
\* bytesSent and droppedFrames unchanged.
C5_WrongLengthIsInvalidParams ==
    (/\ call.op = "rtmp_send_video_frame"
     /\ call.arg.data_size # call.pre.config.width * call.pre.config.height * 4)
    => /\ call.ret = RTMP_ERROR_INVALID_PARAMS
       /\ Work = <<>>
       /\ Stats(g_rtmp) = Stats(call.pre)

\* A buffer of the wrong length was sent to a Streaming session and refused.
C5_Witness ==
    /\ call.op = "rtmp_send_video_frame"
    /\ call.pre.state = RTMP_STATE_STREAMING
    /\ call.arg.rgba = "buf"
    /\ call.arg.data_size # call.pre.config.width * call.pre.config.height * 4
    /\ call.ret = RTMP_ERROR_INVALID_PARAMS

\* ------------------------------------------------------------------ C6
\* C6: a rtmp_send_video_frame call that returns Success increases framesSent
\* by exactly 1 whatever the number of packets the encoder produced; one that
\* returns NotConnected, InvalidParams, EncodeFailed or SendFailed (the only
\* other codes it returns) leaves framesSent unchanged.
C6_OneFramePerSuccess ==
    call.op = "rtmp_send_video_frame"
    => /\ call.ret \in {RTMP_SUCCESS, RTMP_ERROR_NOT_CONNECTED, RTMP_ERROR_INVALID_PARAMS,
                        RTMP_ERROR_ENCODE_FAILED, RTMP_ERROR_SEND_FAILED}
       /\ call.ret = RTMP_SUCCESS => g_rtmp.frames_sent = call.pre.frames_sent + 1
       /\ call.ret # RTMP_SUCCESS => g_rtmp.frames_sent = call.pre.frames_sent

\* A frame for which the encoder produced two packets was sent with success.
C6_Witness ==
    /\ call.op = "rtmp_send_video_frame"
    /\ call.ret = RTMP_SUCCESS
    /\ Len(call.env.drain) = 2
    /\ g_rtmp.frames_sent = call.pre.frames_sent + 1

\* ------------------------------------------------------------------ C7
\* C7 as stated: over every call but initialize, droppedFrames grows by the
\* number of failed muxer writes of video packets the call made, in
\* rtmp_send_video_frame and in the flush of rtmp_disconnect alike.
C7_DroppedPerWriteFailure ==
    (call.op # "none" /\ ~Initialize)
    => g_rtmp.dropped_frames = call.pre.dropped_frames + WriteFailures("video")

\* ------------------------------------------------------------------ C8
\* C8 as stated: if init_audio_encoder failed in the rtmp_connect that
\* established the current connection, every rtmp_send_audio call returns
\* Success, makes no collaborator call and leaves state and statistics
\* unchanged.
C8_AudioAbsentIsNoOp ==
    (/\ call.op = "rtmp_send_audio"
     /\ audio_init_ret = "fail"
     /\ call.pre.state \in {RTMP_STATE_CONNECTED, RTMP_STATE_STREAMING})
    => /\ call.ret = RTMP_SUCCESS
       /\ Work = <<>>
       /\ g_rtmp.state = call.pre.state
       /\ Stats(g_rtmp) = Stats(call.pre)

\* ------------------------------------------------------------------ C9
\* C9 as stated: a rtmp_connect that fails after its parameter and state
\* checks, on a session that held none of the connection's resources, leaves
\* the state Initialized and holds none of them afterwards.
C9_FailedConnectUnwinds ==
    (/\ call.op = "rtmp_connect"
     /\ ValidUrl
     /\ call.pre.state = RTMP_STATE_INITIALIZED
     /\ \A f \in ConnectResources : call.pre[f] = NULL
     /\ call.ret # RTMP_SUCCESS)
    => /\ g_rtmp.state = RTMP_STATE_INITIALIZED
       /\ \A f \in ConnectResources : g_rtmp[f] = NULL

\* ----------------------------------------------------------------- C10
\* The session with the audio pipeline present.
C10_WithAudio(g) ==
    [g EXCEPT !.audio_codec_ctx = LIVE, !.audio_stream = LIVE,
              !.audio_frame = LIVE, !.swr_ctx = LIVE]

\* C10: rtmp_connect called in Initialized with a valid url returns Success and
\* sets the state Connected whenever the muxer context, the video encoder, the
\* transport open and the header write succeed, whatever init_audio_encoder
\* returned; and every rtmp_send_video_frame call returns, logs and changes
\* what it would on the same session with the audio pipeline present.
C10_AudioIsBestEffort ==
    /\ (/\ call.op = "rtmp_connect"
        /\ ValidUrl
        /\ call.pre.state = RTMP_STATE_INITIALIZED
        /\ call.env.fmt /\ call.env.vfail = "none" /\ call.env.open /\ call.env.header)
       => call.ret = RTMP_SUCCESS /\ g_rtmp.state = RTMP_STATE_CONNECTED
    /\ call.op = "rtmp_send_video_frame"
       => LET r == rtmp_send_video_frame(Begin(C10_WithAudio(call.pre)), call.arg.rgba,
                                         call.arg.data_size, call.env)
          IN /\ call.ret = r.ret
             /\ call.log = r.w.log
             /\ C10_WithAudio(g_rtmp) = r.w.g

\* A frame was sent with success on a connection whose audio encoder failed
\* to initialize.
C10_Witness ==
    /\ call.op = "rtmp_send_video_frame"
    /\ call.ret = RTMP_SUCCESS
    /\ audio_init_ret = "fail"
    /\ call.pre.audio_codec_ctx = NULL

\* ----------------------------------------------------------------- C11
\* Vocabulary: releases, losses and invalid pointer uses in the call's log.

\* The number of times the call released the resource held in the field.
Frees(f) ==
    Cardinality({i \in DOMAIN call.log :
                    call.log[i].res = f /\ call.log[i].fn \notin {"leak", "ub", "SET_ERROR"}})

\* The call overwrote a live pointer, or freed the muxer context with the
\* transport still open.
Leaked == \E i \in DOMAIN call.log : call.log[i].fn = "leak"

\* The call handed a NULL or dangling pointer to a collaborator.
UsedInvalidPointer == \E i \in DOMAIN call.log : call.log[i].fn = "ub"

\* The resources that have a release function of their own (the streams are
\* released with the muxer context).
OwnedResources == Resources \ {"video_stream", "audio_stream"}

\* C11 as stated: initialize with a valid config on a session past Idle releases
\* every resource the session holds exactly once, leaks none, uses no invalid
\* pointer in the teardown, and ends in state Initialized with the three
\* counters zero; a second initialize with the same config leaves the session
\* as the first one left it.
C11_ReinitIsSafe ==
    (/\ Initialize
     /\ call.arg.config = "cfg"
     /\ Validates(call.arg.cfg)
     /\ call.pre.state # RTMP_STATE_IDLE)
    => /\ \A f \in OwnedResources : Frees(f) = IF call.pre[f] = LIVE THEN 1 ELSE 0
       /\ ~Leaked
       /\ ~UsedInvalidPointer
       /\ g_rtmp.state = RTMP_STATE_INITIALIZED
       /\ Stats(g_rtmp) = <<0, 0, 0>>
       /\ rtmp_init_simple(Begin(g_rtmp), call.arg.cfg, TRUE, NoFlush).w.g = g_rtmp

\* ----------------------------------------------------------------- C12
\* C12: a rtmp_disconnect called in Connected or Streaming returns Success with
\* the state Initialized and every connection resource pointer NULL, whatever
\* the flush writes and the trailer write returned; it releases each resource
\* the session held exactly once, releases nothing else and loses none.  A
\* rtmp_connect on a session in that condition (no connection resource held)
\* overwrites no live pointer and uses no NULL or dangling one, and when it
\* succeeds every mandatory resource is a new allocation of that call.
C12_DisconnectReleasesAll ==
    /\ (call.op = "rtmp_disconnect"
        /\ call.pre.state \in {RTMP_STATE_CONNECTED, RTMP_STATE_STREAMING})
       => /\ call.ret = RTMP_SUCCESS
          /\ g_rtmp.state = RTMP_STATE_INITIALIZED
          /\ \A f \in ConnectResources : g_rtmp[f] = NULL
          /\ \A f \in OwnedResources \ {"packet"} :
                Frees(f) = IF call.pre[f] = LIVE THEN 1 ELSE 0
          /\ Frees("packet") = 0
          /\ ~Leaked
    /\ (call.op = "rtmp_connect"
        /\ ValidUrl
        /\ call.pre.state = RTMP_STATE_INITIALIZED
        /\ \A f \in ConnectResources : call.pre[f] = NULL)
       => /\ ~Leaked
          /\ ~UsedInvalidPointer
          /\ call.ret = RTMP_SUCCESS
                => \A f \in {"format_ctx", "pb", "video_stream", "video_codec_ctx",
                             "video_frame", "sws_ctx"} : g_rtmp[f] = LIVE

\* A Streaming session was disconnected with a failed flush write and a failed
\* trailer write, and holds no connection resource.
C12_Witness ==
    /\ call.op = "rtmp_disconnect"
    /\ call.pre.state = RTMP_STATE_STREAMING
    /\ call.pre.audio_codec_ctx = LIVE
    /\ ~call.env.trailer
    /\ WriteFailures("video") = 1
    /\ g_rtmp.state = RTMP_STATE_INITIALIZED
    /\ \A f \in ConnectResources : g_rtmp[f] = NULL

\* ----------------------------------------------------------------- C13
\* The collaborator calls of the call, in order, without the error texts and
\* the marks of invalid pointer uses.
Steps == SelectSeq(call.log, LAMBDA e : e.fn \notin {"SET_ERROR", "ub", "leak"})

\* The positions in Steps of the calls of the given collaborator.
StepsOf(fn) == {i \in DOMAIN Steps : Steps[i].fn = fn}

\* The functions that release a codec, converter, frame or muxer resource.
ReleaseFunctions ==
    {"sws_freeContext", "swr_free", "av_frame_free", "avcodec_free_context",
     "avformat_free_context"}

\* The call runs rtmp_disconnect: directly, through rtmp_cleanup, or through
\* the teardown of a re-initialization.
RunsDisconnect ==
    \/ call.op \in {"rtmp_disconnect", "rtmp_cleanup"}
    \/ Initialize /\ call.ret # RTMP_ERROR_INVALID_PARAMS /\ call.pre.state # RTMP_STATE_IDLE

\* The outcomes of the flush of the call.
FlushEnv == IF Initialize THEN call.env.flush ELSE call.env

\* C13: in every call that runs rtmp_disconnect on a Connected or Streaming
\* session the collaborator calls are, in this order: the end-of-stream submit
\* to the video encoder; then receive/write pairs, each received packet
\* handed to the muxer tagged as video before the next receive, one pair for
\* each packet the encoder holds, up to the first receive that returns no
\* packet; then one trailer write; then the transport close; then the
\* releases.  No muxer write follows the trailer.
C13_DisconnectOrder ==
    (RunsDisconnect /\ call.pre.state \in {RTMP_STATE_CONNECTED, RTMP_STATE_STREAMING})
    => LET n == Len(FlushEnv.drain)
           t == 2 * n + 3
       IN /\ Len(Steps) >= t + 1
          /\ Steps[1].fn = "avcodec_send_frame"
          /\ \A k \in 1..n :
                /\ Steps[2 * k].fn = "avcodec_receive_packet"
                /\ Steps[2 * k].res = "ok"
                /\ Steps[2 * k + 1].fn = "av_interleaved_write_frame"
                /\ Steps[2 * k + 1].stream = "video"
                /\ Steps[2 * k + 1].size = Steps[2 * k].size
          /\ Steps[2 * n + 2].fn = "avcodec_receive_packet"
          /\ Steps[2 * n + 2].res # "ok"
          /\ StepsOf("av_write_trailer") = {t}
          /\ StepsOf("avio_closep") = {t + 1}
          /\ \A i \in DOMAIN Steps :
                /\ Steps[i].fn = "av_interleaved_write_frame" => i < t
                /\ Steps[i].fn \in ReleaseFunctions => i > t + 1
          /\ \E i \in DOMAIN Steps : Steps[i].fn = "avformat_free_context"

\* A Streaming session was disconnected while the encoder still held a packet:
\* the packet went to the muxer before the trailer.
C13_Witness ==
    /\ call.op = "rtmp_disconnect"
    /\ call.pre.state = RTMP_STATE_STREAMING
    /\ Len(call.env.drain) = 1
    /\ StepsOf("av_interleaved_write_frame") = {3}
    /\ StepsOf("av_write_trailer") = {5}

\* ----------------------------------------------------------------- C14
\* Collaborator outcomes of an encode call in which nothing fails.
C14_AllSucceed ==
    {e \in EncodeEnvs :
        /\ e.writable /\ e.convert /\ e.send /\ e.end = "EAGAIN"
        /\ \A i \in DOMAIN e.drain : e.drain[i].write}

\* C14: a rtmp_send_video_frame call in which a muxer write of a video packet
\* fails returns SendFailed; the failed write is the last collaborator call it
\* makes (no further receive or write); droppedFrames is one larger and
\* framesSent unchanged; the state is still Streaming and every resource
\* pointer and the config are as before.  A rtmp_send_video_frame on the
\* session it leaves, with a frame of the right length and no collaborator
\* failing, returns Success.
C14_WriteFailureKeepsSession ==
    (call.op = "rtmp_send_video_frame" /\ WriteFailures("video") > 0)
    => /\ call.ret = RTMP_ERROR_SEND_FAILED
       /\ WriteFailures("video") = 1
       /\ Steps[Len(Steps)].fn = "av_interleaved_write_frame"
       /\ Steps[Len(Steps)].res = "fail"
       /\ g_rtmp.dropped_frames = call.pre.dropped_frames + 1
       /\ g_rtmp.frames_sent = call.pre.frames_sent
       /\ call.pre.state = RTMP_STATE_STREAMING
       /\ g_rtmp.state = RTMP_STATE_STREAMING
       /\ g_rtmp.config = call.pre.config
       /\ \A f \in Resources : g_rtmp[f] = call.pre[f]
       /\ \A e \in C14_AllSucceed :
             rtmp_send_video_frame(Begin(g_rtmp), "buf", expected_size(g_rtmp.config), e).ret
                = RTMP_SUCCESS

\* The encoder produced two packets for a frame; the first was written, the
\* write of the second failed and the call returned SendFailed.
C14_Witness ==
    /\ call.op = "rtmp_send_video_frame"
    /\ Len(call.env.drain) = 2
    /\ call.env.drain[1].write
    /\ ~call.env.drain[2].write
    /\ call.ret = RTMP_ERROR_SEND_FAILED
    /\ g_rtmp.state = RTMP_STATE_STREAMING
    /\ g_rtmp.video_codec_ctx = LIVE

\* ----------------------------------------------------------------- C15
\* The thread is in the middle of an initialize (past its first MUTEX_LOCK,
\* line 129) or of a cleanup (past the MUTEX_LOCK of its rtmp_disconnect).
MidInitOrCleanup(t) ==
    \/ /\ thread[t].op = "rtmp_init_simple"
       /\ thread[t].pc \notin {"idle", "init_125", "init_129"}
    \/ /\ thread[t].op = "rtmp_cleanup"
       /\ \lnot (thread[t].pc = "disconnect_661" /\ Len(thread[t].stack) = 1)

\* The session data the lock is there to protect: everything but the text in
\* the last-error slot and the flag of the lock itself.
C15_Protected(g) == [Session(g) EXCEPT !.mutex_initialized = 0]

\* C15 as stated: each operation runs within one holding of the lock, so that
\* while a thread is in the middle of initialize or of cleanup no step of
\* another thread changes the session.
C15_OneLockHolding ==
    [][\A t \in Threads :
          (MidInitOrCleanup(t) /\ thread'[t] = thread[t])
          => C15_Protected(g_rtmp') = C15_Protected(g_rtmp)]_vars

\* ----------------------------------------------------------------- C16
\* C16 as stated: at most one thread at a time is converting, encoding,
\* flushing or writing to the muxer.
C16_OneWorkerAtATime ==
    Cardinality({t \in Threads : thread[t].pc \in WorkPcs}) <= 1

\* ----------------------------------------------------------------- C17
\* C17 as stated: the value a getter reads is the value the field had when the
\* last completed operation returned.
C17_GetterSeesSnapshot ==
    [][\A t \in Threads :
          (thread[t].pc = "idle" /\ thread'[t].pc = "got")
          => thread'[t].got = snapshot[thread'[t].field]]_vars

\* ----------------------------------------------------------------- C18
\* C18: rtmp_connect, rtmp_start_streaming, rtmp_stop_streaming,
\* rtmp_send_video_frame, rtmp_send_audio and rtmp_disconnect each leave
\* bytesSent, framesSent and droppedFrames equal or larger, whatever they
\* return.
C18_CountersNeverDecrease ==
    call.op \in {"rtmp_connect", "rtmp_start_streaming", "rtmp_stop_streaming",
                 "rtmp_send_video_frame", "rtmp_send_audio", "rtmp_disconnect"}
    => /\ g_rtmp.bytes_sent >= call.pre.bytes_sent
       /\ g_rtmp.frames_sent >= call.pre.frames_sent
       /\ g_rtmp.dropped_frames >= call.pre.dropped_frames

\* A session that had sent a frame and dropped one was stopped and kept its
\* three counters.
C18_Witness ==
    /\ call.op = "rtmp_stop_streaming"
    /\ call.pre.state = RTMP_STATE_STREAMING
    /\ call.pre.frames_sent = 1
    /\ call.pre.dropped_frames = 1
    /\ call.pre.bytes_sent > 0
    /\ Stats(g_rtmp) = Stats(call.pre)

\* ----------------------------------------------------------------- C19
\* C19 as stated: every call that returns a failure code has written the
\* last-error slot (rtmp_send_audio included).
C19_FailureSetsError ==
    (call.op # "none" /\ call.ret # RTMP_SUCCESS)
    => \E i \in DOMAIN call.log : call.log[i].fn = "SET_ERROR"

\* ----------------------------------------------------------------- C20
\* The failed audio muxer writes of the call in hand (positions in its log).
C20_FailedAudioWrites ==
    {i \in DOMAIN call.log :
        /\ call.log[i].fn = "av_interleaved_write_frame"
        /\ call.log[i].stream = "audio"
        /\ call.log[i].res = "fail"}

\* C20: no rtmp_send_audio call, whatever it returns, changes frames_sent,
\* dropped_frames or the session state; a failed audio muxer write is the last
\* thing the call does, the call returns SendFailed and the session is still
\* Streaming.
C20_AudioLeavesVideoStatistics ==
    call.op = "rtmp_send_audio"
    => /\ g_rtmp.frames_sent = call.pre.frames_sent
       /\ g_rtmp.dropped_frames = call.pre.dropped_frames
       /\ g_rtmp.state = call.pre.state
       /\ call.ret \in {RTMP_SUCCESS, RTMP_ERROR_INVALID_PARAMS,
                        RTMP_ERROR_ENCODE_FAILED, RTMP_ERROR_SEND_FAILED}
       /\ \A i \in C20_FailedAudioWrites :
             /\ i = Len(call.log)
             /\ call.ret = RTMP_ERROR_SEND_FAILED
             /\ g_rtmp.state = RTMP_STATE_STREAMING
       /\ call.ret = RTMP_ERROR_SEND_FAILED => C20_FailedAudioWrites # {}

\* An audio call in a Streaming session that has sent and dropped video frames
\* wrote one packet and failed on the next.
C20_Witness ==
    /\ call.op = "rtmp_send_audio"
    /\ call.ret = RTMP_ERROR_SEND_FAILED
    /\ C20_FailedAudioWrites # {}
    /\ g_rtmp.bytes_sent > call.pre.bytes_sent
    /\ call.pre.frames_sent > 0
    /\ call.pre.dropped_frames > 0
    /\ call.pre.state = RTMP_STATE_STREAMING

\* ----------------------------------------------------------------- C21
\* The functions of rtmp_connect that allocate a muxer, transport or codec
\* resource.
C21_Allocators ==
    {"avformat_alloc_output_context2", "avcodec_alloc_context3", "avformat_new_stream",
     "av_frame_alloc", "av_frame_get_buffer", "sws_getContext", "swr_alloc",
     "avio_open2"}

\* C21 as stated: whenever rtmp_connect allocates a muxer, transport or codec
\* resource, the stored config has width, height, fps and bitrate_kbps > 0.
C21_AllocatesOnlyWithValidConfig ==
    (/\ call.op = "rtmp_connect"
     /\ \E i \in DOMAIN call.log : call.log[i].fn \in C21_Allocators)
    => /\ call.pre.config.width > 0
       /\ call.pre.config.height > 0
       /\ call.pre.config.fps > 0
       /\ call.pre.config.bitrate_kbps > 0

\* ----------------------------------------------------------------- C22
\* Every collaborator call of an encode call succeeded.
C22_EncodeSucceeds(env) ==
    /\ env.writable /\ env.convert /\ env.send
    /\ \A i \in DOMAIN env.drain : env.drain[i].write
    /\ env.end = "EAGAIN"

\* Every collaborator call of a flush succeeded.
C22_FlushSucceeds(env) ==
    /\ env.eos /\ env.trailer
    /\ \A i \in DOMAIN env.drain : env.drain[i].write
    /\ env.end = "EOF"

\* C22 as stated, step by step of the scenario initialize; connect;
\* startStreaming; sendVideoFrame(valid frame); disconnect with every
\* collaborator call succeeding: the states after the steps are Initialized,
\* Connected, Streaming, Streaming, Initialized, the frame is counted, and
\* after the disconnect bytes_sent > 0 whenever the encoder emitted a packet
\* for the frame, during the send or at the end-of-stream flush.  (A session
\* whose connect succeeded in every collaborator call has an audio encoder.)
C22_Scenario ==
    /\ (/\ Initialize
        /\ call.pre.state = RTMP_STATE_IDLE
        /\ call.arg.config = "cfg" /\ Validates(call.arg.cfg)
        /\ call.env.packet_ok)
       => call.ret = RTMP_SUCCESS /\ g_rtmp.state = RTMP_STATE_INITIALIZED
    /\ (/\ call.op = "rtmp_connect"
        /\ call.pre.state = RTMP_STATE_INITIALIZED
        /\ ValidUrl
        /\ call.env = ConnectOk)
       => call.ret = RTMP_SUCCESS /\ g_rtmp.state = RTMP_STATE_CONNECTED
    /\ (call.op = "rtmp_start_streaming" /\ call.pre.state = RTMP_STATE_CONNECTED)
       => call.ret = RTMP_SUCCESS /\ g_rtmp.state = RTMP_STATE_STREAMING
    /\ (/\ call.op = "rtmp_send_video_frame"
        /\ call.pre.state = RTMP_STATE_STREAMING
        /\ call.pre.frames_sent = 0
        /\ call.arg.rgba = "buf"
        /\ call.arg.data_size = expected_size(call.pre.config)
        /\ C22_EncodeSucceeds(call.env))
       => /\ call.ret = RTMP_SUCCESS
          /\ g_rtmp.frames_sent = 1
          /\ g_rtmp.state = RTMP_STATE_STREAMING
    /\ (/\ call.op = "rtmp_disconnect"
        /\ call.pre.state = RTMP_STATE_STREAMING
        /\ call.pre.frames_sent = 1
        /\ call.pre.dropped_frames = 0
        /\ call.pre.audio_codec_ctx = LIVE
        /\ C22_FlushSucceeds(call.env)
        /\ (call.pre.bytes_sent > 0 \/ call.env.drain # <<>>))
       => /\ call.ret = RTMP_SUCCESS
          /\ g_rtmp.state = RTMP_STATE_INITIALIZED
          /\ g_rtmp.bytes_sent > 0

\* ----------------------------------------------------------------- C23
\* The packets the video encoder hands out during the call in hand, in the
\* order it produces them.
C23_Produced ==
    IF call.op = "rtmp_send_video_frame" THEN call.env.drain
    ELSE IF RunsDisconnect THEN FlushEnv.drain
    ELSE <<>>

\* The muxer writes of video packets during the call in hand, in the order
\* they are made.
C23_Muxed ==
    SelectSeq(Steps, LAMBDA e : e.fn = "av_interleaved_write_frame" /\ e.stream = "video")

\* The muxer writes that are not tagged with the video stream.
C23_OtherWrites ==
    {i \in DOMAIN Steps :
        Steps[i].fn = "av_interleaved_write_frame" /\ Steps[i].stream # "video"}

\* C23: in every call, the video packets handed to the muxer are exactly the
\* packets the video encoder produced during the call, one write per packet,
\* in the order produced, each tagged with the video stream; each write comes
\* right after the packet is received, and a packet does not reach the stream
\* only if its own write failed.  A connection is a sequence of such calls, so
\* the same holds over the whole connection.
C23_PacketsInOrder ==
    call.op # "none"
    => /\ Len(C23_Muxed) = Len(C23_Produced)
       /\ \A i \in DOMAIN C23_Muxed :
             /\ C23_Muxed[i].size = C23_Produced[i].size
             /\ C23_Muxed[i].res = OkFail(C23_Produced[i].write)
       /\ call.op # "rtmp_send_audio" =>
             /\ C23_OtherWrites = {}
             /\ \A i \in DOMAIN Steps :
                   (Steps[i].fn = "avcodec_receive_packet" /\ Steps[i].res = "ok")
                   => /\ i < Len(Steps)
                      /\ Steps[i + 1].fn = "av_interleaved_write_frame"
                      /\ Steps[i + 1].size = Steps[i].size

\* A disconnect whose flush hands the encoder's last packet to the muxer, in a
\* connection that has already written packets and lost one to a failed write.
C23_Witness ==
    /\ call.op = "rtmp_disconnect"
    /\ C23_Produced # <<>>
    /\ Len(C23_Muxed) = Len(C23_Produced)
    /\ call.pre.bytes_sent > 0
    /\ call.pre.dropped_frames > 0

\* ----------------------------------------------------------------- C24
\* C24 as stated: between calls, a Connected or Streaming session holds the
\* packet buffer, the muxer context, the video codec context, the video frame
\* and the pixel converter; an Initialized session holds the packet buffer and
\* no muxer, codec or conversion resource; an Idle session holds no resource.
C24_ResourcesMatchState ==
    /\ g_rtmp.state \in {RTMP_STATE_CONNECTED, RTMP_STATE_STREAMING}
       => \A f \in {"packet", "format_ctx", "video_codec_ctx", "video_frame", "sws_ctx"} :
             g_rtmp[f] = LIVE
    /\ g_rtmp.state = RTMP_STATE_INITIALIZED
       => /\ g_rtmp.packet = LIVE
          /\ \A f \in OwnedResources \ {"packet"} : g_rtmp[f] = NULL
    /\ g_rtmp.state = RTMP_STATE_IDLE
       => \A f \in OwnedResources : g_rtmp[f] = NULL

\* ----------------------------------------------------------------- C25
\* C25 as stated: whenever a thread passes its frame to the pixel conversion,
\* the length it gave is width * height * 4 of the config stored at that
\* moment.
C25_ConvertedFrameFitsConfig ==
    [][\A t \in Threads :
          (At(t, "video_498") /\ thread'[t].pc = "video_540")
          => thread[t].size = expected_size(g_rtmp.config)]_vars

\* ----------------------------------------------------------------- C26
\* C26 as stated: under fair scheduling, every call a thread makes returns.
C26_EveryCallReturns ==
    \A t \in Threads : (thread[t].pc # "idle") ~> (thread[t].pc = "idle")

====
